---- MODULE Spec2Model ----
(***************************************************************************)
(* The client-side framework of Michael's Hub: the service container, the  *)
(* component base class with its lifecycle hooks and change detection, the *)
(* component registry and the application bootstrapper.                    *)
(*                                                                         *)
(* Six specifications are given.  Spec is the page: DOMContentLoaded, the  *)
(* bootstrap stages and the page's handlers.  SpecComponent is a single    *)
(* component instance driven directly through initialize, setState and     *)
(* render.  SpecContainer and SpecRegistry drive a ServiceContainer and a  *)
(* ComponentRegistry, SpecSpace the SpaceService and the page script's     *)
(* space background, SpecServices a BlogService and the theme toggle.      *)
(* All use the same operators for the code they share.                     *)
(***************************************************************************)
EXTENDS Integers, Sequences, FiniteSets, TLC

\* ------------------------------------------------------------------ bounds
\* number of handler calls (setState, form submit, delete, navigation) in a run
MaxOps == 2
\* number of required services the page may have left unregistered
MaxMissing == 1
\* length of the recorded prefix of a component's hook invocations
HistCap == 4
\* hook invocation counters saturate here
CountCap == 2
\* number of register calls made on a service container driven directly
MaxRegistrations == 3

\* ------------------------------------------------------------------ values
\* A JavaScript value held in a component's state: undefined, a primitive,
\* or an object (an array of post ids) with its identity `v` and contents.
Undefined == [kind |-> "undefined", v |-> 0, body |-> <<>>]
Prim(n) == [kind |-> "primitive", v |-> n, body |-> <<>>]
Obj(ref, body) == [kind |-> "object", v |-> ref, body |-> body]

\* a !== b : primitives by value, objects by identity
StrictNotEquals(a, b) ==
    \/ a.kind # b.kind
    \/ a.kind = "primitive" /\ a.v # b.v
    \/ a.kind = "object" /\ a.v # b.v

\* comparison of contents (what JSON.stringify(a) === JSON.stringify(b) decides)
SameContents(a, b) ==
    /\ a.kind = b.kind
    /\ a.kind = "primitive" => a.v = b.v
    /\ a.kind = "object" => a.body = b.body

\* ---------------------------------------------------------------- services
RequiredServices == <<"blog", "crypto", "court", "theme", "space", "notification">>
ServiceNames == {RequiredServices[i] : i \in DOMAIN RequiredServices}

NullService == [class |-> "null"]
\* new BlogService(), new CryptoService(), ... : one instance per class
NewService(name) == [class |-> name]

\* get handing out a service for a name that is not a key
ContainerGetDefault(map, name) ==
    IF name \notin DOMAIN map THEN NewService(name) ELSE map[name]

\* ServiceContainer.get over the container's Map `map`
ContainerGet(map, name) ==
    IF name \notin DOMAIN map THEN NullService ELSE map[name]

\* the data CryptoService.loadCryptoData installs (coins by position in the list)
CryptoCoins == <<1, 2, 3, 4, 5, 6>>
\* the cases CourtService.getCases returns (cases by position in the list)
CourtCases == <<1, 2, 3>>

\* -------------------------------------------------------------- components
\* registration order in ApplicationBootstrapper.initializeComponents
ComponentNames == <<"blog", "crypto", "court", "admin">>
Components == {ComponentNames[i] : i \in DOMAIN ComponentNames}

\* the selector each component class passes to super()
Selector(c) ==
    CASE c = "blog" -> "#blog-section"
      [] c = "crypto" -> "#crypto-section"
      [] c = "court" -> "#courts-results"
      [] c = "admin" -> "#admin-section"
MountPoints == {Selector(c) : c \in Components}

Keys == {"a", "posts"}
KeyOrder == <<"a", "posts">>
EmptyState == [k \in Keys |-> Undefined]
NoArg == [k \in {} |-> Undefined]

\* the object a call of getComponentDependencies(), or a caller of initializeAll,
\* builds: its identity and its entries
NoBundle == [ref |-> 0, services |-> [n \in {} |-> NullService]]

\* a constructor that keeps a copy ({...dependencies}) of the bundle it is given
NewComponentCopiesBundle(c, deps) ==
    [name |-> c, created |-> TRUE, element |-> FALSE, state |-> EmptyState,
     dependencies |->
         [deps EXCEPT !.ref = @ + (CHOOSE i \in DOMAIN ComponentNames : ComponentNames[i] = c)],
     data |-> <<>>, filtered |-> <<>>, selected |-> 0,
     onInitPending |-> FALSE]

\* new Component(dependencies): BaseComponent constructor plus the subclass fields
NewComponent(c, deps) ==
    [name |-> c, created |-> TRUE, element |-> FALSE, state |-> EmptyState,
     dependencies |-> deps, data |-> <<>>, filtered |-> <<>>, selected |-> 0,
     onInitPending |-> FALSE]
NoComponent ==
    [name |-> "none", created |-> FALSE, element |-> FALSE, state |-> EmptyState,
     dependencies |-> NoBundle, data |-> <<>>,
     filtered |-> <<>>, selected |-> 0, onInitPending |-> FALSE]

\* the #transcript-viewer element of the case-details markup: its inline display
\* style, whether it has the class 'hidden', its title and its content
NoViewer == [present |-> FALSE, display |-> "none", hidden |-> FALSE,
             title |-> "", content |-> ""]
DetailsViewer == [present |-> TRUE, display |-> "none", hidden |-> FALSE,
                  title |-> "", content |-> ""]

\* new SpaceService(): no images, currentIndex 0
NewSpaceService == [images |-> <<>>, currentIndex |-> 0]

\* the page script's globals for the space background (spaceImages = []), with the
\* loadSpaceImages calls made on it, the batches of requests these issued, and
\* where the running call is
PageScript == [spaceImages |-> <<>>, calls |-> 0, batches |-> 0, loader |-> "idle"]

NoMarkup == [by |-> "none", view |-> "none", shows |-> <<>>, viewer |-> NoViewer]

\* ------------------------------------------------------------------- state
VARIABLES
    elements,       \* selectors that resolve in the document
    html,           \* innerHTML under each mount point
    loadingText,    \* textContent of .loading-text
    container,      \* window.serviceContainer: [present, services (its Map)]
    windowComponentRegistry,  \* whether window.ComponentRegistry is defined
    app,            \* the ApplicationBootstrapper instance held in `app`
    pc,             \* position of bootstrap()
    bootstrapResult,\* the promise bootstrap() returned: pending, resolved, rejected
    comp,           \* the component instances, by class
    storedPosts,    \* localStorage['michael_blog_posts'], parsed
    cryptoData,     \* CryptoService.cryptoData
    theme,          \* ThemeService.currentTheme, the stored preference, body.dark-mode
    notifications,  \* calls of NotificationService.error
    warnings,       \* console.warn calls made by the bootstrapper's external stages
    events,         \* 'app-ready' events dispatched on window
    hist,           \* per component: the first HistCap hook invocations
    count,          \* per component: invocations per hook, saturating at CountCap
    lastCall,       \* the handler that ran last, with the hooks it invoked
    ops,            \* handler calls so far
    clock,          \* Date.now()
    stages,         \* the starts and ends of bootstrap()'s stages, in order
    registry,       \* a ComponentRegistry's Map, as its names in insertion order
    instances,      \* what the last ComponentRegistry.initializeAll returned
    regLog,         \* the ServiceContainer.register calls made, in order
    space,          \* a SpaceService: its images and currentIndex
    page,           \* the page script's space background: spaceImages, its loader
    blogStore       \* localStorage['michael_blog_posts'] of a BlogService driven directly

vars == <<elements, html, loadingText, container, windowComponentRegistry, app, pc,
          bootstrapResult, comp, storedPosts, cryptoData, theme, notifications,
          warnings, events, hist, count, lastCall, ops, clock, stages, registry,
          instances, regLog, space, page, blogStore>>

\* what the bootstrap and the components' handlers never touch: a registry, a
\* container and the services a caller drives directly, and the page script's
\* space background
directVars == <<registry, instances, regLog, space, page, blogStore>>

\* the record of one stage of bootstrap(): started, then ended or threw
StageRun(stage, ok) ==
    <<[stage |-> stage, event |-> "start"],
      [stage |-> stage, event |-> IF ok THEN "end" ELSE "throw"]>>

HookNames == {"onInit", "render", "onAfterViewInit", "onChanges", "onDestroy"}

\* one hook invocation: the hook, its argument, and this.state as the hook sees it
\* (and, for the view it is about to draw, the component's data and whether the
\* operation its onInit returned is still pending)
Hook(name, rec, arg) ==
    [comp |-> rec.name, hook |-> name, state |-> rec.state, data |-> rec.data,
     pending |-> rec.onInitPending, arg |-> arg]

Min(a, b) == IF a < b THEN a ELSE b

\* --------------------------------------------------- BaseComponent.setState
KeysOf(newState) == SelectSeq(KeyOrder, LAMBDA k : k \in DOMAIN newState)

\* the loop with `old` read after the assignment
RECURSIVE MergeKeysOldAfterAssign(_, _, _, _)
MergeKeysOldAfterAssign(order, newState, st, changes) ==
    IF order = <<>> THEN [state |-> st, changes |-> changes]
    ELSE LET key == Head(order) IN
         IF StrictNotEquals(st[key], newState[key])
         THEN MergeKeysOldAfterAssign(Tail(order), newState,
                        [st EXCEPT ![key] = newState[key]],
                        changes @@ (key :> [old |-> newState[key], new |-> newState[key]]))
         ELSE MergeKeysOldAfterAssign(Tail(order), newState, st, changes)

\* the for-in loop of setState: collects `changes` and assigns this.state[key]
RECURSIVE MergeKeys(_, _, _, _)
MergeKeys(order, newState, st, changes) ==
    IF order = <<>> THEN [state |-> st, changes |-> changes]
    ELSE LET key == Head(order) IN
         IF StrictNotEquals(st[key], newState[key])
         THEN MergeKeys(Tail(order), newState,
                        [st EXCEPT ![key] = newState[key]],
                        changes @@ (key :> [old |-> st[key], new |-> newState[key]]))
         ELSE MergeKeys(Tail(order), newState, st, changes)

\* setState without the `Object.keys(changes).length > 0` test
setStateUnguarded(rec, newState) ==
    LET m == MergeKeys(KeysOf(newState), newState, rec.state, NoArg)
        r == [rec EXCEPT !.state = m.state]
    IN [rec |-> r,
        changes |-> m.changes,
        hooks |-> <<Hook("onChanges", r, m.changes), Hook("render", r, NoArg)>>]

\* setState invoking its hooks from inside the loop, after the first key
setStateHooksInLoop(rec, newState) ==
    LET keys == KeysOf(newState)
        m1 == MergeKeys(SubSeq(keys, 1, 1), newState, rec.state, NoArg)
        m == MergeKeys(keys, newState, rec.state, NoArg)
        r1 == [rec EXCEPT !.state = m1.state]
    IN [rec |-> [rec EXCEPT !.state = m.state],
        changes |-> m.changes,
        hooks |-> IF DOMAIN m.changes # {}
                  THEN <<Hook("onChanges", r1, m.changes), Hook("render", r1, NoArg)>>
                  ELSE <<>>]

\* setState replacing the instance's dependencies along with its state
setStateDropsDependencies(rec, newState) ==
    LET m == MergeKeys(KeysOf(newState), newState, rec.state, NoArg)
        r == [rec EXCEPT !.state = m.state, !.dependencies = NoBundle]
    IN [rec |-> r,
        changes |-> m.changes,
        hooks |-> IF DOMAIN m.changes # {}
                  THEN <<Hook("onChanges", r, m.changes), Hook("render", r, NoArg)>>
                  ELSE <<>>]

\* setState(newState): the component after the merge and the hooks invoked, in order
setState(rec, newState) ==
    LET m == MergeKeys(KeysOf(newState), newState, rec.state, NoArg)
        r == [rec EXCEPT !.state = m.state]
    IN [rec |-> r,
        changes |-> m.changes,
        hooks |-> IF DOMAIN m.changes # {}
                  THEN <<Hook("onChanges", r, m.changes), Hook("render", r, NoArg)>>
                  ELSE <<>>]

\* ------------------------------------------------------------------ render
\* what the component's render() writes: the data it reads, by component class
Markup(c, rec, posts, coins) ==
    CASE c = "blog" ->
            [by |-> c, view |-> "list", shows |-> rec.data, viewer |-> NoViewer]
      [] c = "crypto" ->
            [by |-> c, view |-> "list", shows |-> rec.data, viewer |-> NoViewer]
      [] c = "court" ->
            IF rec.selected = 0
            THEN [by |-> c, view |-> "list", shows |-> rec.filtered,
                  viewer |-> NoViewer]
            ELSE [by |-> c, view |-> "details", shows |-> <<rec.selected>>,
                  viewer |-> DetailsViewer]
      [] c = "admin" ->
            [by |-> c, view |-> "stats", viewer |-> NoViewer,
             shows |-> <<Len(posts), Len(coins), Len(CourtCases)>>]

\* render(): `if (!this.element) return;` then replaces the mount point's innerHTML
render(c, rec, h, posts, coins) ==
    IF ~rec.element THEN h
    ELSE [h EXCEPT ![Selector(c)] = Markup(c, rec, posts, coins)]

\* ------------------------------------------------------------------ onInit
\* the synchronous part of onInit(): what it assigns before returning
onInit(c, rec, posts) ==
    CASE c = "blog" -> [rec EXCEPT !.data = posts]
      [] c = "crypto" -> [rec EXCEPT !.onInitPending = TRUE]
      [] c = "court" -> [rec EXCEPT !.data = CourtCases, !.filtered = CourtCases]
      [] c = "admin" -> rec

\* CryptoComponent.onInit calls cryptoService.loadCryptoData() before it suspends
CryptoDataAfterOnInit(c, coins) == IF c = "crypto" THEN CryptoCoins ELSE coins

\* -------------------------------------------------- BaseComponent.initialize
\* initialize() calling onInit before it looks at the element
initializeOnInitFirst(c, rec, els, h, posts, coins) ==
    LET r0 == [rec EXCEPT !.element = Selector(c) \in els]
        r1 == onInit(c, r0, posts)
        c1 == CryptoDataAfterOnInit(c, coins)
        h1 == render(c, r1, h, posts, c1)
    IN IF Selector(c) \notin els
       THEN [ok |-> FALSE, rec |-> r1, html |-> h, coins |-> c1,
             hooks |-> <<Hook("onInit", r0, NoArg)>>]
       ELSE [ok |-> TRUE, rec |-> r1, html |-> h1, coins |-> c1,
             hooks |-> <<Hook("onInit", r0, NoArg),
                         Hook("render", r1, NoArg),
                         Hook("onAfterViewInit", r1, NoArg)>>]

\* initialize() calling onAfterViewInit before render
initializeViewInitBeforeRender(c, rec, els, h, posts, coins) ==
    IF Selector(c) \notin els
    THEN [ok |-> FALSE, rec |-> [rec EXCEPT !.element = FALSE], html |-> h,
          coins |-> coins, hooks |-> <<>>]
    ELSE LET r0 == [rec EXCEPT !.element = TRUE]
             r1 == onInit(c, r0, posts)
             c1 == CryptoDataAfterOnInit(c, coins)
             h1 == render(c, r1, h, posts, c1)
         IN [ok |-> TRUE, rec |-> r1, html |-> h1, coins |-> c1,
             hooks |-> <<Hook("onInit", r0, NoArg),
                         Hook("onAfterViewInit", r1, NoArg),
                         Hook("render", r1, NoArg)>>]

\* initialize(): resolves the selector; on success onInit, render, onAfterViewInit
initialize(c, rec, els, h, posts, coins) ==
    IF Selector(c) \notin els
    THEN [ok |-> FALSE, rec |-> [rec EXCEPT !.element = FALSE], html |-> h,
          coins |-> coins, hooks |-> <<>>]
    ELSE LET r0 == [rec EXCEPT !.element = TRUE]
             r1 == onInit(c, r0, posts)
             c1 == CryptoDataAfterOnInit(c, coins)
             h1 == render(c, r1, h, posts, c1)
         IN [ok |-> TRUE, rec |-> r1, html |-> h1, coins |-> c1,
             hooks |-> <<Hook("onInit", r0, NoArg),
                         Hook("render", r1, NoArg),
                         Hook("onAfterViewInit", r1, NoArg)>>]

\* ----------------------------------------------------------- hook records
HookSeq(hooks) == [i \in DOMAIN hooks |-> hooks[i].hook]
Occurrences(hooks, name) == Cardinality({i \in DOMAIN hooks : hooks[i].hook = name})

HistAfter(c, hooks) ==
    [hist EXCEPT ![c] = SubSeq(@ \o HookSeq(hooks), 1, Min(HistCap, Len(@) + Len(hooks)))]
CountAfter(c, hooks) ==
    [count EXCEPT ![c] = [n \in HookNames |-> Min(CountCap, @[n] + Occurrences(hooks, n))]]

Call(op, c, arg, hooks, result) ==
    [op |-> op, comp |-> c, arg |-> arg, hooks |-> hooks, result |-> result]

\* --------------------------------------------------------------- bootstrap
NewApp ==
    [created |-> TRUE, serviceContainer |-> FALSE, componentRegistry |-> FALSE,
     components |-> <<>>, isInitialized |-> FALSE]
NoApp == [NewApp EXCEPT !.created = FALSE]

\* an Error, by the place that threw it
Error(cause, name) == [cause |-> cause, name |-> name]

\* the check over a required list that lacks its last name
FirstMissingShortList(map) ==
    LET missing == {i \in 1..(Len(RequiredServices) - 1) :
                      ContainerGet(map, RequiredServices[i]) = NullService}
    IN IF missing = {} THEN 0
       ELSE CHOOSE i \in missing : \A j \in missing : i <= j

\* the first required service the container does not resolve (0: none is missing)
FirstMissing(map) ==
    LET missing == {i \in DOMAIN RequiredServices :
                      ContainerGet(map, RequiredServices[i]) = NullService}
    IN IF missing = {} THEN 0
       ELSE CHOOSE i \in missing : \A j \in missing : i <= j

\* handleBootstrapError(error), run by the catch of bootstrap(): `containerSet` is
\* whether this.serviceContainer holds a container.  this.serviceContainer.get on
\* null raises a TypeError out of the catch block.
handleBootstrapError(containerSet, error) ==
    IF ~containerSet
    THEN [raised |-> TRUE, notifications |-> notifications, loadingText |-> loadingText]
    ELSE [raised |-> FALSE,
          notifications |->
              IF ContainerGet(container.services, "notification") # NullService
              THEN Append(notifications, error)
              ELSE notifications,
          loadingText |->
              IF ".loading-text" \in elements THEN "failed" ELSE loadingText]

\* the catch branch of bootstrap(), as the rest of a stage's step
Caught(containerSet, error) ==
    LET h == handleBootstrapError(containerSet, error) IN
    /\ notifications' = h.notifications
    /\ loadingText' = h.loadingText
    /\ bootstrapResult' = IF h.raised THEN "rejected" ELSE "resolved"
    /\ pc' = "failed"

\* document 'DOMContentLoaded': app = new ApplicationBootstrapper(); app.bootstrap()
DOMContentLoaded ==
    /\ UNCHANGED <<stages, registry, instances, regLog, space, page, blogStore>>
    /\ pc = "not_started"
    /\ app' = NewApp
    /\ pc' = "services"
    /\ bootstrapResult' = "pending"
    /\ lastCall' = Call("DOMContentLoaded", "none", NoArg, <<>>, TRUE)
    /\ UNCHANGED <<elements, html, loadingText, container, windowComponentRegistry,
                   comp, storedPosts, cryptoData, theme,
                   notifications, warnings, events, hist, count, ops, clock>>

\* Step 1: initializeServices
initializeServices ==
    /\ UNCHANGED directVars
    /\ pc = "services"
    /\ app' = [app EXCEPT !.serviceContainer = container.present]
    /\ IF ~container.present
       THEN Caught(FALSE, Error("ServiceContainer not available", "none"))
       ELSE IF FirstMissing(container.services) # 0
       THEN Caught(TRUE, Error("Required service not found",
                               RequiredServices[FirstMissing(container.services)]))
       ELSE /\ pc' = "theme"
            /\ UNCHANGED <<notifications, loadingText, bootstrapResult>>
    /\ lastCall' = Call("initializeServices", "none", NoArg, <<>>, pc' = "theme")
    /\ stages' = stages \o StageRun("services", pc' = "theme")
    /\ UNCHANGED <<elements, html, container, windowComponentRegistry, comp,
                   storedPosts, cryptoData, theme, warnings, events, hist, count,
                   ops, clock>>

\* ThemeService.initTheme
initTheme(t) ==
    LET current == IF t.stored = "none" THEN "light" ELSE t.stored IN
    [t EXCEPT !.currentTheme = current, !.darkMode = @ \/ current = "dark"]

\* toggleTheme that does not write the preference back
toggleThemeNoPersist(t) ==
    LET isDark == t.currentTheme = "dark" IN
    [currentTheme |-> IF isDark THEN "light" ELSE "dark",
     stored |-> t.stored,
     darkMode |-> ~isDark]

\* ThemeService.toggleTheme: the service, the stored preference and the
\* 'dark-mode' class of the body after the call; it returns currentTheme
toggleTheme(t) ==
    LET isDark == t.currentTheme = "dark" IN
    [currentTheme |-> IF isDark THEN "light" ELSE "dark",
     stored |-> IF isDark THEN "light" ELSE "dark",
     darkMode |-> ~isDark]

\* Step 2: initializeTheme
initializeTheme ==
    /\ UNCHANGED directVars
    /\ pc = "theme"
    /\ theme' = initTheme(theme)
    /\ pc' = "components"
    /\ lastCall' = Call("initializeTheme", "none", NoArg, <<>>, TRUE)
    /\ stages' = stages \o StageRun("theme", TRUE)
    /\ UNCHANGED <<elements, html, loadingText, container, windowComponentRegistry,
                   app, bootstrapResult, comp, storedPosts, cryptoData,
                   notifications, warnings, events, hist, count, ops, clock>>

\* getComponentDependencies: the services the components receive
getComponentDependencies(map) ==
    [ref |-> 1, services |-> [n \in ServiceNames |-> ContainerGet(map, n)]]

\* BaseComponent.getService(serviceName): this.dependencies[serviceName] || null
getService(rec, serviceName) ==
    IF serviceName \in DOMAIN rec.dependencies.services
    THEN rec.dependencies.services[serviceName]
    ELSE NullService

\* the forEach recording every instance, whatever initialize() returned
RECURSIVE InitializeEachPushAll(_, _)
InitializeEachPushAll(names, w) ==
    IF names = <<>> THEN w
    ELSE LET c == Head(names)
             instance == NewComponent(c, w.deps)
             r == initialize(c, instance, elements, w.html, storedPosts, w.coins)
         IN InitializeEachPushAll(Tail(names),
                [w EXCEPT !.comp[c] = r.rec,
                          !.html = r.html,
                          !.coins = r.coins,
                          !.hooks[c] = r.hooks,
                          !.log = @ \o r.hooks,
                          !.components = Append(@, c)])

\* the forEach collecting with unshift instead of push
RECURSIVE InitializeEachUnshift(_, _)
InitializeEachUnshift(names, w) ==
    IF names = <<>> THEN w
    ELSE LET c == Head(names)
             instance == NewComponent(c, w.deps)
             r == initialize(c, instance, elements, w.html, storedPosts, w.coins)
         IN InitializeEachUnshift(Tail(names),
                [w EXCEPT !.comp[c] = r.rec,
                          !.html = r.html,
                          !.coins = r.coins,
                          !.hooks[c] = r.hooks,
                          !.log = @ \o r.hooks,
                          !.components = IF r.ok THEN <<c>> \o @ ELSE @])

\* the forEach over ['blog', 'crypto', 'admin'] of initializeComponents: create the
\* instance, initialize() it, record it when that succeeded
RECURSIVE InitializeEach(_, _)
InitializeEach(names, w) ==
    IF names = <<>> THEN w
    ELSE LET c == Head(names)
             instance == NewComponent(c, w.deps)
             r == initialize(c, instance, elements, w.html, storedPosts, w.coins)
         IN InitializeEach(Tail(names),
                [w EXCEPT !.comp[c] = r.rec,
                          !.html = r.html,
                          !.coins = r.coins,
                          !.hooks[c] = r.hooks,
                          !.log = @ \o r.hooks,
                          !.components = IF r.ok THEN Append(@, c) ELSE @])

\* the court component constructed and recorded without its onInit() call
InitializeCourtNoOnInit(w) ==
    LET instance == NewComponent("court", w.deps)
    IN [w EXCEPT !.comp["court"] = instance,
                 !.components = Append(@, "court")]

\* the court component: constructed, onInit() called, recorded; never initialize()d
InitializeCourt(w) ==
    LET instance == NewComponent("court", w.deps)
        r == onInit("court", instance, storedPosts)
    IN [w EXCEPT !.comp["court"] = r,
                 !.hooks["court"] = <<Hook("onInit", instance, NoArg)>>,
                 !.log = @ \o <<Hook("onInit", instance, NoArg)>>,
                 !.components = Append(@, "court")]

\* stage 3 taking the components in the order they were registered
InitializedComponentsRegistrationOrder(w) ==
    InitializeEach(<<"admin">>, InitializeCourt(InitializeEach(<<"blog", "crypto">>, w)))

\* the forEach over blog, crypto and admin, then the court component
InitializedComponents(w) == InitializeCourt(InitializeEach(<<"blog", "crypto", "admin">>, w))

\* Step 3: initializeComponents
initializeComponents ==
    /\ UNCHANGED directVars
    /\ pc = "components"
    /\ IF ~windowComponentRegistry
       THEN /\ Caught(app.serviceContainer, Error("ComponentRegistry not available", "none"))
            /\ lastCall' = Call("initializeComponents", "none", NoArg, <<>>, FALSE)
            /\ UNCHANGED <<app, comp, html, cryptoData, hist, count>>
       ELSE LET w0 == [comp |-> comp, html |-> html, coins |-> cryptoData,
                       deps |-> getComponentDependencies(container.services),
                       hooks |-> [c \in Components |-> <<>>],
                       log |-> <<>>,
                       components |-> <<>>]
                w == InitializedComponents(w0)
            IN /\ comp' = w.comp
               /\ html' = w.html
               /\ cryptoData' = w.coins
               /\ app' = [app EXCEPT !.componentRegistry = TRUE,
                                     !.components = w.components]
               /\ hist' = [c \in Components |->
                             SubSeq(hist[c] \o HookSeq(w.hooks[c]), 1,
                                    Min(HistCap, Len(hist[c]) + Len(w.hooks[c])))]
               /\ count' = [c \in Components |-> [n \in HookNames |->
                             Min(CountCap, count[c][n] + Occurrences(w.hooks[c], n))]]
               /\ pc' = "scene"
               /\ lastCall' = Call("initializeComponents", "none", NoArg,
                                    w.log, TRUE)
               /\ UNCHANGED <<notifications, loadingText, bootstrapResult>>
    /\ stages' = stages \o StageRun("components", pc' = "scene")
    /\ UNCHANGED <<elements, container, windowComponentRegistry, storedPosts, theme,
                   warnings, events, ops, clock>>

\* the continuation of CryptoComponent.onInit: this.coins = (the loaded data).
\* It is queued when onInit suspends and runs before bootstrap() resumes.
SettleOnInit(c) ==
    /\ UNCHANGED <<stages, registry, instances, regLog, space, page, blogStore>>
    /\ comp[c].created
    /\ comp[c].onInitPending
    /\ comp' = [comp EXCEPT ![c].data = cryptoData, ![c].onInitPending = FALSE]
    /\ lastCall' = Call("settleOnInit", c, NoArg, <<>>, TRUE)
    /\ UNCHANGED <<elements, html, loadingText, container, windowComponentRegistry,
                   app, pc, bootstrapResult, storedPosts, cryptoData, theme,
                   notifications, warnings, events, hist, count, ops, clock>>

NoMicrotask == \A c \in Components : ~comp[c].onInitPending

\* what `typeof initThreeJsScene` and the call can do
SceneOutcomes == {"absent", "returns", "throws"}

\* Step 4: initialize3DScene
initialize3DScene(scene) ==
    /\ UNCHANGED directVars
    /\ pc = "scene"
    /\ NoMicrotask
    /\ IF scene = "throws"
       THEN /\ Caught(app.serviceContainer, Error("initThreeJsScene threw", "none"))
            /\ UNCHANGED warnings
       ELSE /\ warnings' = IF scene = "absent"
                           THEN Append(warnings, "Three.js initialization function not found")
                           ELSE warnings
            /\ pc' = "async"
            /\ UNCHANGED <<notifications, loadingText, bootstrapResult>>
    /\ lastCall' = Call("initialize3DScene", "none", NoArg, <<>>, scene # "throws")
    /\ stages' = stages \o StageRun("scene", scene # "throws")
    /\ UNCHANGED <<elements, html, container, windowComponentRegistry, app, comp,
                   storedPosts, cryptoData, theme, events, hist, count, ops, clock>>

\* loadAsyncData returning without awaiting the loads it started
loadAsyncDataStartNoAwait ==
    /\ UNCHANGED directVars
    /\ pc = "async"
    /\ cryptoData' = CryptoCoins
    /\ pc' = "complete"
    /\ lastCall' = Call("loadAsyncData", "none", NoArg, <<>>, TRUE)
    /\ stages' = Append(stages, [stage |-> "async", event |-> "start"])
    /\ UNCHANGED <<elements, html, loadingText, container, windowComponentRegistry,
                   app, bootstrapResult, comp, storedPosts, theme, notifications,
                   warnings, events, hist, count, ops, clock>>

\* Step 5: loadAsyncData, up to its await: both loads are started
\* (CryptoService.loadCryptoData assigns cryptoData before it returns)
loadAsyncDataStart ==
    /\ UNCHANGED directVars
    /\ pc = "async"
    /\ cryptoData' = CryptoCoins
    /\ pc' = "async_wait"
    /\ lastCall' = Call("loadAsyncData", "none", NoArg, <<>>, TRUE)
    /\ stages' = Append(stages, [stage |-> "async", event |-> "start"])
    /\ UNCHANGED <<elements, html, loadingText, container, windowComponentRegistry,
                   app, bootstrapResult, comp, storedPosts, theme, notifications,
                   warnings, events, hist, count, ops, clock>>

\* Step 5, after the await: Promise.all resolved, or rejected into the catch
loadAsyncDataSettle(outcome) ==
    /\ UNCHANGED directVars
    /\ pc = "async_wait"
    /\ warnings' = IF outcome = "rejected"
                   THEN Append(warnings, "Error loading async data")
                   ELSE warnings
    /\ pc' = "complete"
    /\ lastCall' = Call("loadAsyncDataSettled", "none", NoArg, <<>>, outcome = "resolved")
    /\ stages' = Append(stages, [stage |-> "async", event |-> "end"])
    /\ UNCHANGED <<elements, html, loadingText, container, windowComponentRegistry,
                   app, bootstrapResult, comp, storedPosts, cryptoData, theme,
                   notifications, events, hist, count, ops, clock>>

\* Step 6: completeInitialization dispatches 'app-ready' (its listeners run inside
\* dispatchEvent and read app.isInitialized); bootstrap then sets isInitialized
completeInitialization ==
    /\ UNCHANGED directVars
    /\ pc = "complete"
    /\ events' = Append(events,
                        [type |-> "app-ready",
                         detail |-> [isInitialized |-> TRUE, components |-> app.components],
                         flagSeen |-> app.isInitialized])
    /\ app' = [app EXCEPT !.isInitialized = TRUE]
    /\ pc' = "ready"
    /\ bootstrapResult' = "resolved"
    /\ lastCall' = Call("completeInitialization", "none", NoArg, <<>>, TRUE)
    /\ stages' = stages \o StageRun("complete", TRUE)
    /\ UNCHANGED <<elements, html, loadingText, container, windowComponentRegistry,
                   comp, storedPosts, cryptoData, theme, notifications, warnings,
                   hist, count, ops, clock>>

\* window.getAppService(name): app ? app.getService(name) : null, where
\* getService reads this.serviceContainer.get(name)
getAppService(name) ==
    IF ~app.created THEN [raised |-> FALSE, value |-> NullService]
    ELSE IF ~app.serviceContainer THEN [raised |-> TRUE, value |-> NullService]
    ELSE [raised |-> FALSE, value |-> ContainerGet(container.services, name)]

\* ---------------------------------------------------------- page handlers
\* handlers run as tasks of their own: while bootstrap() waits for the data loads,
\* or after it has ended, and after the pending continuations
Interactive == pc \in {"async_wait", "ready", "failed"} /\ NoMicrotask

\* the identity of the i-th object allocated by the handler running now
FreshRef(i) == ops * Cardinality(Keys) + i

\* BlogService.getPosts(): JSON.parse builds a new array on every call
getPosts(posts, ref) == Obj(ref, posts)

\* BlogService.createPost: id = Date.now(), posts.unshift(post)
createPost(posts, now) == <<now>> \o posts

\* the value of a data-id attribute read back through dataset: a string
DatasetId(n) == [type |-> "string", text |-> n]

\* BlogService.deletePost(id): posts.filter(p => p.id !== id), p.id being a number
deletePost(posts, id) ==
    SelectSeq(posts, LAMBDA p : ~(id.type = "number" /\ id.text = p))

\* the blog component's markup is on the page, with its listeners attached
BlogRendered ==
    /\ comp["blog"].created
    /\ comp["blog"].element
    /\ html[Selector("blog")].by = "blog"

\* a component's setState(newState) as a step: the merge, then onChanges and render
ApplySetState(op, c, newState, posts) ==
    LET r == setState(comp[c], newState) IN
    /\ comp' = [comp EXCEPT ![c] = r.rec]
    /\ html' = IF r.hooks # <<>>
               THEN render(c, r.rec, html, posts, cryptoData)
               ELSE html
    /\ hist' = HistAfter(c, r.hooks)
    /\ count' = CountAfter(c, r.hooks)
    /\ lastCall' = Call(op, c, newState, r.hooks, TRUE)

\* BlogComponent.handleSavePost with a title and content typed in; `tick` is the
\* time elapsed on the clock since it was last read
handleSavePost(tick) ==
    /\ UNCHANGED <<stages, registry, instances, regLog, space, page, blogStore>>
    /\ Interactive
    /\ ops < MaxOps
    /\ BlogRendered
    /\ clock' = clock + tick
    /\ storedPosts' = createPost(storedPosts, clock')
    /\ ApplySetState("handleSavePost", "blog",
                     [k \in {"posts"} |-> getPosts(storedPosts', FreshRef(1))],
                     storedPosts')
    /\ ops' = ops + 1
    /\ UNCHANGED <<elements, loadingText, container, windowComponentRegistry, app, pc,
                   bootstrapResult, cryptoData, theme, notifications, warnings, events>>

\* BlogComponent.deletePost(e.target.dataset.id) on a rendered delete button,
\* the confirm() dialog accepted
blogDeletePost(n) ==
    /\ UNCHANGED <<stages, registry, instances, regLog, space, page, blogStore>>
    /\ Interactive
    /\ ops < MaxOps
    /\ BlogRendered
    /\ n \in {html[Selector("blog")].shows[i] : i \in DOMAIN html[Selector("blog")].shows}
    /\ storedPosts' = deletePost(storedPosts, DatasetId(n))
    /\ ApplySetState("deletePost", "blog",
                     [k \in {"posts"} |-> getPosts(storedPosts', FreshRef(1))],
                     storedPosts')
    /\ ops' = ops + 1
    /\ UNCHANGED <<elements, loadingText, container, windowComponentRegistry, app, pc,
                   bootstrapResult, cryptoData, theme, notifications, warnings, events,
                   clock>>

\* showPage('courts'): resets the court component's filter and calls its render()
showPageCourts ==
    /\ UNCHANGED <<stages, registry, instances, regLog, space, page, blogStore>>
    /\ Interactive
    /\ ops < MaxOps
    /\ comp["court"].created
    /\ LET r == [comp["court"] EXCEPT !.filtered = comp["court"].data, !.selected = 0]
           hooks == <<Hook("render", r, NoArg)>>
       IN /\ comp' = [comp EXCEPT !["court"] = r]
          /\ html' = render("court", r, html, storedPosts, cryptoData)
          /\ hist' = HistAfter("court", hooks)
          /\ count' = CountAfter("court", hooks)
          /\ lastCall' = Call("showPage", "court", NoArg, hooks, TRUE)
    /\ ops' = ops + 1
    /\ UNCHANGED <<elements, loadingText, container, windowComponentRegistry, app, pc,
                   bootstrapResult, storedPosts, cryptoData, theme, notifications,
                   warnings, events, clock>>

\* themeService.toggleTheme() called: by the click handler initializeTheme
\* attached, or on the service obtained through getAppService('theme')
callToggleTheme ==
    /\ UNCHANGED <<stages, registry, instances, regLog, space, page, blogStore>>
    /\ Interactive
    /\ ops < MaxOps
    /\ app.serviceContainer
    /\ ContainerGet(container.services, "theme") # NullService
    /\ theme' = toggleTheme(theme)
    /\ lastCall' = Call("toggleTheme", "none", NoArg, <<>>, theme'.currentTheme)
    /\ ops' = ops + 1
    /\ UNCHANGED <<elements, html, loadingText, container, windowComponentRegistry,
                   app, pc, bootstrapResult, comp, storedPosts, cryptoData,
                   notifications, warnings, events, hist, count, clock>>

\* the text fields of the cases CourtService.getCases returns that searchCases
\* reads, as their characters
Case1Name ==
    <<"S", "e", "c", "u", "r", "i", "t", "i", "e", "s", " ", "&", " ", "E",
        "x", "c", "h", "a", "n", "g", "e", " ", "C", "o", "m", "m", "i", "s",
        "s", "i", "o", "n", " ", "v", ".", " ", "F", "T", "X", " ", "T", "r",
        "a", "d", "i", "n", "g", " ", "L", "t", "d", ".">>
Case1Judge ==
    <<"J", "u", "d", "g", "e", " ", "L", "e", "w", "i", "s", " ", "A", ".",
        " ", "K", "a", "p", "l", "a", "n">>
Case1Summary ==
    <<"H", "i", "g", "h", "-", "p", "r", "o", "f", "i", "l", "e", " ", "c",
        "r", "y", "p", "t", "o", "c", "u", "r", "r", "e", "n", "c", "y", " ",
        "f", "r", "a", "u", "d", " ", "c", "a", "s", "e", ".", " ", "S", "e",
        "c", "u", "r", "i", "t", "i", "e", "s", " ", "v", "i", "o", "l", "a",
        "t", "i", "o", "n", "s", ",", " ", "w", "i", "r", "e", " ", "f", "r",
        "a", "u", "d", ",", " ", "a", "n", "d", " ", "c", "o", "n", "s", "p",
        "i", "r", "a", "c", "y", " ", "c", "h", "a", "r", "g", "e", "s", " ",
        "i", "n", "v", "o", "l", "v", "i", "n", "g", " ", "b", "i", "l", "l",
        "i", "o", "n", "s", " ", "i", "n", " ", "c", "u", "s", "t", "o", "m",
        "e", "r", " ", "f", "u", "n", "d", "s", ".", " ", "J", "u", "d", "g",
        "e", " ", "K", "a", "p", "l", "a", "n", " ", "p", "r", "e", "s", "i",
        "d", "i", "n", "g", ".">>
Case1Parties ==
    <<<<"S", "e", "c", "u", "r", "i", "t", "i", "e", "s", " ", "&", " ", "E",
        "x", "c", "h", "a", "n", "g", "e", " ", "C", "o", "m", "m", "i", "s",
        "s", "i", "o", "n">>,
      <<"F", "T", "X", " ", "T", "r", "a", "d", "i", "n", "g", " ", "L", "t",
        "d", ".">>,
      <<"S", "a", "m", " ", "B", "a", "n", "k", "m", "a", "n", "-", "F", "r",
        "i", "e", "d">>>>
Case2Name ==
    <<"U", "n", "i", "t", "e", "d", " ", "S", "t", "a", "t", "e", "s", " ",
        "v", ".", " ", "B", "a", "n", "k", "m", "a", "n", "-", "F", "r", "i",
        "e", "d", ",", " ", "S", "a", "m", "u", "e", "l">>
Case2Judge ==
    <<"J", "u", "d", "g", "e", " ", "L", "e", "w", "i", "s", " ", "A", ".",
        " ", "K", "a", "p", "l", "a", "n">>
Case2Summary ==
    <<"C", "r", "i", "m", "i", "n", "a", "l", " ", "p", "r", "o", "s", "e",
        "c", "u", "t", "i", "o", "n", " ", "o", "f", " ", "F", "T", "X", " ",
        "f", "o", "u", "n", "d", "e", "r", ".", " ", "W", "i", "r", "e", " ",
        "f", "r", "a", "u", "d", ",", " ", "m", "o", "n", "e", "y", " ", "l",
        "a", "u", "n", "d", "e", "r", "i", "n", "g", ",", " ", "a", "n", "d",
        " ", "c", "o", "n", "s", "p", "i", "r", "a", "c", "y", ".", " ", "J",
        "u", "d", "g", "e", " ", "K", "a", "p", "l", "a", "n", " ", "o", "v",
        "e", "r", "s", "e", "e", "i", "n", "g", " ", "t", "r", "i", "a", "l",
        ".">>
Case2Parties ==
    <<<<"U", "n", "i", "t", "e", "d", " ", "S", "t", "a", "t", "e", "s">>,
      <<"S", "a", "m", "u", "e", "l", " ", "B", "a", "n", "k", "m", "a", "n",
        "-", "F", "r", "i", "e", "d">>>>
Case3Name ==
    <<"F", "e", "d", "e", "r", "a", "l", " ", "T", "r", "a", "d", "e", " ",
        "C", "o", "m", "m", "i", "s", "s", "i", "o", "n", " ", "v", ".", " ",
        "T", "e", "c", "h", "C", "o", "r", "p", " ", "I", "n", "c", ".">>
Case3Judge ==
    <<"J", "u", "d", "g", "e", " ", "E", "l", "e", "n", "a", " ", "R", "o",
        "d", "r", "i", "g", "u", "e", "z">>
Case3Summary ==
    <<"A", "n", "t", "i", "t", "r", "u", "s", "t", " ", "c", "a", "s", "e",
        " ", "i", "n", "v", "o", "l", "v", "i", "n", "g", " ", "a", "l", "l",
        "e", "g", "e", "d", " ", "m", "o", "n", "o", "p", "o", "l", "i", "s",
        "t", "i", "c", " ", "p", "r", "a", "c", "t", "i", "c", "e", "s", " ",
        "i", "n", " ", "t", "h", "e", " ", "t", "e", "c", "h", "n", "o", "l",
        "o", "g", "y", " ", "s", "e", "c", "t", "o", "r", ".">>
Case3Parties ==
    <<<<"F", "e", "d", "e", "r", "a", "l", " ", "T", "r", "a", "d", "e", " ",
        "C", "o", "m", "m", "i", "s", "s", "i", "o", "n">>,
      <<"T", "e", "c", "h", "C", "o", "r", "p", " ", "I", "n", "c", ".">>>>
CaseText ==
    <<[case_name |-> Case1Name, judge |-> Case1Judge, summary |-> Case1Summary,
       parties |-> Case1Parties],
      [case_name |-> Case2Name, judge |-> Case2Judge, summary |-> Case2Summary,
       parties |-> Case2Parties],
      [case_name |-> Case3Name, judge |-> Case3Judge, summary |-> Case3Summary,
       parties |-> Case3Parties]>>

\* String.prototype.toLowerCase over the letters the texts and the queries hold
UpperCase == <<"A", "B", "C", "D", "E", "F", "G", "H", "I", "J", "K", "L", "M",
               "N", "O", "P", "Q", "R", "S", "T", "U", "V", "W", "X", "Y", "Z">>
LowerCase == <<"a", "b", "c", "d", "e", "f", "g", "h", "i", "j", "k", "l", "m",
               "n", "o", "p", "q", "r", "s", "t", "u", "v", "w", "x", "y", "z">>
toLowerCase(str) ==
    [i \in DOMAIN str |->
        IF \E j \in DOMAIN UpperCase : UpperCase[j] = str[i]
        THEN LowerCase[CHOOSE j \in DOMAIN UpperCase : UpperCase[j] = str[i]]
        ELSE str[i]]

\* String.prototype.includes
includes(str, part) ==
    \E i \in 0..(Len(str) - Len(part)) : \A j \in DOMAIN part : str[i + j] = part[j]

\* the strings of the documented call searchCases('ftx', 'Judge Kaplan')
QueryFtx == <<"f", "t", "x">>
QueryJudgeKaplan == <<"J", "u", "d", "g", "e", " ", "K", "a", "p", "l", "a", "n">>
NoText == <<>>

\* what the court search form can be asked: nothing, 'ftx', and the documented
\* query with its judge
Queries ==
    {[query |-> NoText, judge |-> NoText, party |-> NoText],
     [query |-> QueryFtx, judge |-> NoText, party |-> NoText],
     [query |-> QueryFtx, judge |-> QueryJudgeKaplan, party |-> NoText]}

\* CourtService.searchCases(query, judge, party): the cases, by position, that
\* pass the three filters
searchCases(query, judge, party) ==
    SelectSeq(CourtCases, LAMBDA k :
        LET c == CaseText[k]
            queryMatch ==
                \/ query = NoText
                \/ includes(toLowerCase(c.case_name), toLowerCase(query))
                \/ includes(toLowerCase(c.summary), toLowerCase(query))
                \/ \E i \in DOMAIN c.parties :
                      includes(toLowerCase(c.parties[i]), toLowerCase(query))
            judgeMatch ==
                judge = NoText \/ includes(toLowerCase(c.judge), toLowerCase(judge))
            partyMatch ==
                \/ party = NoText
                \/ \E i \in DOMAIN c.parties :
                      includes(toLowerCase(c.parties[i]), toLowerCase(party))
        IN queryMatch /\ judgeMatch /\ partyMatch)

\* what searchCases returns for each thing the form can be asked
SearchResults == [q \in Queries |-> searchCases(q.query, q.judge, q.party)]

\* searchCourts(): filters the court component's cases and calls its render()
searchCourts(query) ==
    /\ UNCHANGED <<stages, registry, instances, regLog, space, page, blogStore>>
    /\ Interactive
    /\ ops < MaxOps
    /\ comp["court"].created
    /\ LET r == [comp["court"] EXCEPT
                    !.filtered = SearchResults[query],
                    !.selected = 0]
           hooks == <<Hook("render", r, NoArg)>>
       IN /\ comp' = [comp EXCEPT !["court"] = r]
          /\ html' = render("court", r, html, storedPosts, cryptoData)
          /\ hist' = HistAfter("court", hooks)
          /\ count' = CountAfter("court", hooks)
          /\ lastCall' = Call("searchCourts", "court", query, hooks, TRUE)
    /\ ops' = ops + 1
    /\ UNCHANGED <<elements, loadingText, container, windowComponentRegistry, app, pc,
                   bootstrapResult, storedPosts, cryptoData, theme, notifications,
                   warnings, events, clock>>

\* ------------------------------------------------- a component on its own
KeyIndex(k) == CHOOSE i \in DOMAIN KeyOrder : KeyOrder[i] = k

\* values a caller passes for key k: a primitive, the value the state holds now
\* (the same object when it is one), a newly built empty array
ValuePool(st, k) == {Prim(1), st[k], Obj(FreshRef(KeyIndex(k)), <<>>)}

\* the objects a caller may pass: any subset of the keys, each with a pool value
RECURSIVE UpdatesOver(_, _)
UpdatesOver(order, st) ==
    IF order = <<>> THEN {NoArg}
    ELSE LET rest == UpdatesOver(Tail(order), st)
             k == Head(order)
         IN rest \cup {(k :> x) @@ f : x \in ValuePool(st, k), f \in rest}
PartialUpdates(st) == UpdatesOver(KeyOrder, st)

\* component.initialize() called on the instance
callInitialize(c) ==
    /\ UNCHANGED <<stages, registry, instances, regLog, space, page, blogStore>>
    /\ pc = "unit"
    /\ comp[c].created
    /\ LET r == initialize(c, comp[c], elements, html, storedPosts, cryptoData) IN
       /\ comp' = [comp EXCEPT ![c] = r.rec]
       /\ html' = r.html
       /\ cryptoData' = r.coins
       /\ hist' = HistAfter(c, r.hooks)
       /\ count' = CountAfter(c, r.hooks)
       /\ lastCall' = Call("initialize", c, NoArg, r.hooks, r.ok)
    /\ UNCHANGED <<elements, loadingText, container, windowComponentRegistry, app, pc,
                   bootstrapResult, storedPosts, theme, notifications, warnings,
                   events, ops, clock>>

\* component.setState(newState) called on the instance
callSetState(c, newState) ==
    /\ UNCHANGED <<stages, registry, instances, regLog, space, page, blogStore>>
    /\ pc = "unit"
    /\ ops < MaxOps
    /\ comp[c].created
    /\ ApplySetState("setState", c, newState, storedPosts)
    /\ ops' = ops + 1
    /\ UNCHANGED <<elements, loadingText, container, windowComponentRegistry, app, pc,
                   bootstrapResult, storedPosts, cryptoData, theme, notifications,
                   warnings, events, clock>>

\* the containers the page can have when DOMContentLoaded fires
Registrations ==
    {[present |-> TRUE, services |-> [n \in R |-> NewService(n)]] :
        R \in {S \in SUBSET ServiceNames : Cardinality(ServiceNames \ S) <= MaxMissing}}
NoContainer == [present |-> FALSE, services |-> [n \in {} |-> NullService]]
AllRegistered == [present |-> TRUE, services |-> [n \in ServiceNames |-> NewService(n)]]
\* the documented 'Add a New Service' steps followed: a service registered under a
\* name of its own at the bottom of service.module.js
WithNewService ==
    [present |-> TRUE,
     services |-> [n \in ServiceNames \cup {"myService"} |-> NewService(n)]]

\* the transcripts of each case of CourtService.getCases, by id
Transcripts ==
    <<{"ftx_001", "ftx_002", "ftx_003", "ftx_004", "ftx_005"},
      {"sbf_001", "sbf_002", "sbf_003", "sbf_004"},
      {"tech_001", "tech_002"}>>

\* CourtService.getTranscriptContent(id): the text kept for the id, '' for an id
\* it does not know
getTranscriptContent(id) ==
    IF \E k \in DOMAIN Transcripts : id \in Transcripts[k]
    THEN "transcript " \o id
    ELSE ""

\* the viewer as it is displayed: no 'display: none' of its own and no class
\* 'hidden'
Visible(viewer) == viewer.present /\ viewer.display # "none" /\ ~viewer.hidden

\* a click on a case card of the rendered list: CourtComponent.selectCase(docket)
callSelectCase(k) ==
    /\ UNCHANGED <<stages, registry, instances, regLog, space, page, blogStore>>
    /\ pc = "unit"
    /\ ops < MaxOps
    /\ comp["court"].created
    /\ html[Selector("court")].by = "court"
    /\ html[Selector("court")].view = "list"
    /\ \E i \in DOMAIN html[Selector("court")].shows : html[Selector("court")].shows[i] = k
    /\ LET r == [comp["court"] EXCEPT !.selected = k]
           hooks == <<Hook("render", r, NoArg)>>
       IN /\ comp' = [comp EXCEPT !["court"] = r]
          /\ html' = render("court", r, html, storedPosts, cryptoData)
          /\ hist' = HistAfter("court", hooks)
          /\ count' = CountAfter("court", hooks)
          /\ lastCall' = Call("selectCase", "court", NoArg, hooks, TRUE)
    /\ ops' = ops + 1
    /\ UNCHANGED <<elements, loadingText, container, windowComponentRegistry, app, pc,
                   bootstrapResult, storedPosts, cryptoData, theme, notifications,
                   warnings, events, clock>>

\* CourtComponent.viewTranscript(id, title) on the viewer element: fills the title
\* and the content and removes the class 'hidden'
viewTranscript(viewer, id) ==
    [viewer EXCEPT !.title = id, !.content = getTranscriptContent(id),
                   !.hidden = FALSE]

\* a click on a transcript's View button in the case-details view
callViewTranscript(id) ==
    /\ UNCHANGED <<stages, registry, instances, regLog, space, page, blogStore>>
    /\ pc = "unit"
    /\ ops < MaxOps
    /\ html[Selector("court")].by = "court"
    /\ html[Selector("court")].view = "details"
    /\ id \in Transcripts[comp["court"].selected]
    /\ html' = [html EXCEPT ![Selector("court")].viewer = viewTranscript(@, id)]
    /\ lastCall' = Call("viewTranscript", "court", NoArg, <<>>, id)
    /\ ops' = ops + 1
    /\ UNCHANGED <<elements, loadingText, container, windowComponentRegistry, app, pc,
                   bootstrapResult, comp, storedPosts, cryptoData, theme, notifications,
                   warnings, events, hist, count, clock>>

\* a click on the viewer's Close button: closeTranscriptViewer adds 'hidden'
callCloseTranscriptViewer ==
    /\ UNCHANGED <<stages, registry, instances, regLog, space, page, blogStore>>
    /\ pc = "unit"
    /\ ops < MaxOps
    /\ html[Selector("court")].by = "court"
    /\ html[Selector("court")].view = "details"
    /\ html' = [html EXCEPT ![Selector("court")].viewer.hidden = TRUE]
    /\ lastCall' = Call("closeTranscriptViewer", "court", NoArg, <<>>, TRUE)
    /\ ops' = ops + 1
    /\ UNCHANGED <<elements, loadingText, container, windowComponentRegistry, app, pc,
                   bootstrapResult, comp, storedPosts, cryptoData, theme, notifications,
                   warnings, events, hist, count, clock>>

\* component.render() called on the instance
callRender(c) ==
    /\ UNCHANGED <<stages, registry, instances, regLog, space, page, blogStore>>
    /\ pc = "unit"
    /\ ops < MaxOps
    /\ comp[c].created
    /\ LET hooks == <<Hook("render", comp[c], NoArg)>> IN
       /\ html' = render(c, comp[c], html, storedPosts, cryptoData)
       /\ hist' = HistAfter(c, hooks)
       /\ count' = CountAfter(c, hooks)
       /\ lastCall' = Call("render", c, NoArg, hooks, TRUE)
    /\ ops' = ops + 1
    /\ UNCHANGED <<elements, loadingText, container, windowComponentRegistry, app, pc,
                   bootstrapResult, comp, storedPosts, cryptoData, theme, notifications,
                   warnings, events, clock>>

\* component.onDestroy() called on the instance: the hook is empty in every
\* component class, and no method of the component tears it down
callOnDestroy(c) ==
    /\ UNCHANGED <<stages, registry, instances, regLog, space, page, blogStore>>
    /\ pc = "unit"
    /\ ops < MaxOps
    /\ comp[c].created
    /\ LET hooks == <<Hook("onDestroy", comp[c], NoArg)>> IN
       /\ hist' = HistAfter(c, hooks)
       /\ count' = CountAfter(c, hooks)
       /\ lastCall' = Call("onDestroy", c, NoArg, hooks, TRUE)
    /\ ops' = ops + 1
    /\ UNCHANGED <<elements, html, loadingText, container, windowComponentRegistry,
                   app, pc, bootstrapResult, comp, storedPosts, cryptoData, theme,
                   notifications, warnings, events, clock>>

\* ------------------------------- a container and a registry on their own
\* the names and the service instances a caller registers
RegNames == {"blog", "crypto"}
RegServices == {NewService("blog"), NewService("crypto")}
\* the names a caller looks up: the registered ones and one never registered
GetNames == RegNames \cup {"space"}

\* a set that keeps the value of a name that is already a key
MapSetKeepFirst(map, name, value) ==
    [n \in DOMAIN map \cup {name} |-> IF n \in DOMAIN map THEN map[n] ELSE value]

\* Map.set(name, value) on a Map held as a function
MapSet(map, name, value) ==
    [n \in DOMAIN map \cup {name} |-> IF n = name THEN value ELSE map[n]]

\* serviceContainer.register(name, service)
register(name, service) ==
    /\ pc = "container"
    /\ Len(regLog) < MaxRegistrations
    /\ container' = [container EXCEPT !.services = MapSet(@, name, service)]
    /\ regLog' = Append(regLog, [name |-> name, service |-> service])
    /\ lastCall' = Call("register", name, NoArg, <<>>, service)
    /\ UNCHANGED <<elements, html, loadingText, windowComponentRegistry, app, pc,
                   bootstrapResult, comp, storedPosts, cryptoData, theme,
                   notifications, warnings, events, hist, count, ops, clock, stages,
                   registry, instances>>
    /\ UNCHANGED <<space, page, blogStore>>

\* serviceContainer.get(name), its return value kept in lastCall
get(name) ==
    /\ pc = "container"
    /\ lastCall' = Call("get", name, NoArg, <<>>, ContainerGet(container.services, name))
    /\ UNCHANGED <<elements, html, loadingText, container, windowComponentRegistry,
                   app, pc, bootstrapResult, comp, storedPosts, cryptoData, theme,
                   notifications, warnings, events, hist, count, ops, clock, stages,
                   registry, instances, regLog>>
    /\ UNCHANGED <<space, page, blogStore>>

\* componentRegistry.register(name, Component): Map.set keeps the position of a
\* name that is already a key
registryRegister(name) ==
    /\ pc = "registry"
    /\ registry' = IF \E i \in DOMAIN registry : registry[i] = name
                   THEN registry
                   ELSE Append(registry, name)
    /\ lastCall' = Call("registryRegister", name, NoArg, <<>>, TRUE)
    /\ UNCHANGED <<elements, html, loadingText, container, windowComponentRegistry,
                   app, pc, bootstrapResult, comp, storedPosts, cryptoData, theme,
                   notifications, warnings, events, hist, count, ops, clock, stages,
                   instances, regLog>>
    /\ UNCHANGED <<space, page, blogStore>>

\* componentRegistry.initializeAll(dependencies): over the Map in insertion order,
\* create the instance, initialize() it, collect it when that succeeded
initializeAll ==
    /\ pc = "registry"
    /\ ops < MaxOps
    /\ NoMicrotask
    /\ LET w0 == [comp |-> comp, html |-> html, coins |-> cryptoData,
                  deps |-> getComponentDependencies(container.services),
                  hooks |-> [c \in Components |-> <<>>],
                  components |-> <<>>]
           w == InitializeEach(registry, w0)
       IN /\ comp' = w.comp
          /\ html' = w.html
          /\ cryptoData' = w.coins
          /\ instances' = w.components
          /\ hist' = [c \in Components |->
                        SubSeq(hist[c] \o HookSeq(w.hooks[c]), 1,
                               Min(HistCap, Len(hist[c]) + Len(w.hooks[c])))]
          /\ count' = [c \in Components |-> [n \in HookNames |->
                        Min(CountCap, count[c][n] + Occurrences(w.hooks[c], n))]]
          /\ lastCall' = Call("initializeAll", "none", NoArg, <<>>, TRUE)
    /\ ops' = ops + 1
    /\ UNCHANGED <<elements, loadingText, container, windowComponentRegistry, app, pc,
                   bootstrapResult, storedPosts, theme, notifications, warnings,
                   events, clock, stages, registry, regLog>>
    /\ UNCHANGED <<space, page, blogStore>>

\* ------------------------------------------------------------ SpaceService
\* number of the per-day requests of one batch that may fail (or, for the opposite
\* case, that may succeed)
MaxFailed == 2
\* batches of requests the page's loader may issue in a run
MaxBatches == 3

\* the ten dates requested, today first
Days == 1..10
\* .slice(0, 8)
ImageLimit == 8

\* A request for a day's picture comes to "ok" (an entry with url and title),
\* "okHd" (one with hdurl as well), "rejected" (the fetch or its json() rejects),
\* "noUrl" or "noTitle" (an entry without that field).

\* the way the request for day d fails, when it does
FailureOf(d) == CASE d % 3 = 0 -> "rejected" [] d % 3 = 1 -> "noUrl" [] OTHER -> "noTitle"

\* the outcomes of the ten requests of a batch: few of them failing, or few succeeding
FailSets ==
    {F \in SUBSET Days : Cardinality(F) <= MaxFailed
                            \/ Cardinality(F) >= Cardinality(Days) - MaxFailed}
Responses ==
    {[d \in Days |-> IF d \in F THEN FailureOf(d)
                     ELSE IF d % 2 = 0 THEN "okHd" ELSE "ok"] : F \in FailSets}

\* absent fields of a response are 0; the url, hdurl and title of day d's picture
NullResponse == [null |-> TRUE, url |-> 0, hdurl |-> 0, title |-> 0]
Url(d) == d
HdUrl(d) == 100 + d
Title(d) == d

\* fetch(...).then(res => res.json()).catch(() => null) for day d
fetchDay(outcome, d) ==
    CASE outcome = "ok" -> [null |-> FALSE, url |-> Url(d), hdurl |-> 0, title |-> Title(d)]
      [] outcome = "okHd" ->
            [null |-> FALSE, url |-> Url(d), hdurl |-> HdUrl(d), title |-> Title(d)]
      [] outcome = "noUrl" -> [null |-> FALSE, url |-> 0, hdurl |-> 0, title |-> Title(d)]
      [] outcome = "noTitle" -> [null |-> FALSE, url |-> Url(d), hdurl |-> 0, title |-> 0]
      [] OTHER -> NullResponse

\* .filter(r => r && r.url && r.title).map(r => ({url: r.hdurl || r.url, ...}))
\*     .slice(0, 8)
ValidImages(responses) ==
    LET fetched == [d \in Days |-> fetchDay(responses[d], d)]
        valid == SelectSeq(fetched, LAMBDA r : ~r.null /\ r.url # 0 /\ r.title # 0)
        images == [i \in DOMAIN valid |->
                     [url |-> IF valid[i].hdurl # 0 THEN valid[i].hdurl ELSE valid[i].url,
                      title |-> valid[i].title]]
    IN SubSeq(images, 1, Min(ImageLimit, Len(images)))

\* SpaceService.getDefaultImages()
getDefaultImages ==
    [i \in 1..3 |-> [url |-> 200 + i, title |-> 200 + i]]

\* loadSpaceImages without the per-request catch: one rejected fetch rejects
\* Promise.all and the method returns the default images
loadSpaceImagesNoCatch(sp, responses) ==
    IF \E d \in Days : responses[d] = "rejected"
    THEN [space |-> sp, rejected |-> FALSE, result |-> getDefaultImages]
    ELSE [space |-> [sp EXCEPT !.images = ValidImages(responses)],
          rejected |-> FALSE, result |-> ValidImages(responses)]

\* SpaceService.loadSpaceImages(): the service afterwards, whether the promise it
\* returned rejected, and the images it resolved to
loadSpaceImages(sp, responses) ==
    [space |-> [sp EXCEPT !.images = ValidImages(responses)],
     rejected |-> FALSE, result |-> ValidImages(responses)]

\* the result of arithmetic on an index by a list of length 0
NaN == 0 - 1
NullImage == [url |-> 0, title |-> 0]

\* x % n in JavaScript, for x >= 0
Remainder(x, n) == IF x = NaN \/ n = 0 THEN NaN ELSE x % n

\* SpaceService.getCurrentImage(): this.images[this.currentIndex] || null
getCurrentImage(sp) ==
    IF sp.currentIndex # NaN /\ sp.currentIndex + 1 \in DOMAIN sp.images
    THEN sp.images[sp.currentIndex + 1]
    ELSE NullImage

\* SpaceService.nextImage()
nextImage(sp) ==
    [sp EXCEPT !.currentIndex =
        IF @ = NaN THEN NaN ELSE Remainder(@ + 1, Len(sp.images))]

\* SpaceService.previousImage()
previousImage(sp) ==
    [sp EXCEPT !.currentIndex =
        IF @ = NaN THEN NaN ELSE Remainder(@ - 1 + Len(sp.images), Len(sp.images))]

\* what a caller of the space service leaves alone
spaceUnchanged ==
    UNCHANGED <<elements, html, loadingText, container, windowComponentRegistry, app,
                pc, bootstrapResult, comp, storedPosts, cryptoData, theme,
                notifications, warnings, events, hist, count, clock, stages, registry,
                instances, regLog, blogStore>>

callLoadSpaceImages(responses) ==
    /\ pc = "space"
    /\ ops < MaxOps
    /\ LET r == loadSpaceImages(space, responses)
       IN /\ space' = r.space
          /\ lastCall' = Call("loadSpaceImages", "space", responses, <<>>,
                              [rejected |-> r.rejected, images |-> r.result])
    /\ ops' = ops + 1
    /\ UNCHANGED page
    /\ spaceUnchanged

callNextImage ==
    /\ pc = "space"
    /\ ops < MaxOps
    /\ space' = nextImage(space)
    /\ lastCall' = Call("nextImage", "space", NoArg, <<>>, getCurrentImage(space'))
    /\ ops' = ops + 1
    /\ UNCHANGED page
    /\ spaceUnchanged

callPreviousImage ==
    /\ pc = "space"
    /\ ops < MaxOps
    /\ space' = previousImage(space)
    /\ lastCall' = Call("previousImage", "space", NoArg, <<>>, getCurrentImage(space'))
    /\ ops' = ops + 1
    /\ UNCHANGED page
    /\ spaceUnchanged

\* ------------------------------------- the page script's loadSpaceImages()
\* the eight fallback pictures
FallbackImages == [i \in 1..8 |-> [url |-> 300 + i, title |-> 300 + i]]

\* the batches the page's loader answers: every request served, or every one failing
PageResponses ==
    {r \in Responses : (\A d \in Days : r[d] \in {"ok", "okHd"})
                          \/ (\A d \in Days : r[d] \notin {"ok", "okHd"})}

\* spaceImages after the filter, with the fallback when it came out empty
pageSpaceImages(responses) ==
    IF ValidImages(responses) = <<>> THEN FallbackImages ELSE ValidImages(responses)

\* loadSpaceImages() called by the DOMContentLoaded handler: the dates are built
\* and the ten requests issued, then the call awaits them
pageLoadSpaceImages ==
    /\ pc = "space"
    /\ ops < MaxOps
    /\ page.loader = "idle"
    /\ page.batches < MaxBatches
    /\ page' = [page EXCEPT !.calls = @ + 1, !.batches = @ + 1, !.loader = "fetching"]
    /\ lastCall' = Call("pageLoadSpaceImages", "page", NoArg, <<>>, TRUE)
    /\ ops' = ops + 1
    /\ UNCHANGED space
    /\ spaceUnchanged

\* the rest of the call once the requests have settled: spaceImages is assigned and
\* drawn into #space-images-container; an exception there is caught, and the catch
\* block calls loadSpaceImages() again
pageLoadSettle(responses) ==
    /\ pc = "space"
    /\ page.loader = "fetching"
    /\ IF "#space-images-container" \in elements
       THEN /\ page' = [page EXCEPT !.spaceImages = pageSpaceImages(responses),
                                    !.loader = "idle"]
            /\ lastCall' = Call("pageLoadSettle", "page", responses, <<>>, TRUE)
       ELSE /\ page.batches < MaxBatches
            /\ page' = [page EXCEPT !.spaceImages = pageSpaceImages(responses),
                                    !.batches = @ + 1]
            /\ lastCall' = Call("pageLoadSettle", "page", responses, <<>>, FALSE)
    /\ UNCHANGED <<space, ops>>
    /\ spaceUnchanged

\* ---------------------------------------------- the page script's theme code
\* initTheme() of the page script: the marker is added when the stored preference
\* is 'dark'
pageInitTheme(t) == [t EXCEPT !.darkMode = @ \/ t.stored = "dark"]

\* toggleTheme() of the page script: classList.toggle('dark-mode'), then the
\* preference is stored from the marker
pageToggleTheme(t) ==
    [t EXCEPT !.darkMode = ~@, !.stored = IF ~t.darkMode THEN "dark" ELSE "light"]

\* the two click listeners of #theme-toggle, in the order they were added
ListenerOrders == {<<"page", "service">>, <<"service", "page">>}

RunListener(l, t) == IF l = "page" THEN pageToggleTheme(t) ELSE toggleTheme(t)

\* what a caller of the blog service, or a click on the theme toggle, leaves alone
servicesUnchanged ==
    UNCHANGED <<elements, html, loadingText, container, windowComponentRegistry, app,
                pc, bootstrapResult, comp, storedPosts, cryptoData, notifications,
                warnings, events, hist, count, stages, registry, instances, regLog,
                space, page>>

\* a click on #theme-toggle with both listeners attached
clickThemeToggle(order) ==
    /\ pc = "services_direct"
    /\ ops < MaxOps
    /\ theme' = RunListener(order[2], RunListener(order[1], theme))
    /\ lastCall' = Call("clickThemeToggle", "none", order, <<>>, theme'.currentTheme)
    /\ ops' = ops + 1
    /\ UNCHANGED <<clock, blogStore>>
    /\ servicesUnchanged

\* ------------------------------------------------------------- BlogService
\* the titles a caller gives a post
Titles == {"first", "edited"}

\* BlogService.createPost(postData) on the stored posts, Date.now() being `now`
createPostAt(posts, postData, now) ==
    <<[id |-> now, title |-> postData.title, views |-> 0]>> \o posts

\* BlogService.updatePost(id, updates): posts.map(p => p.id === id ? {...p, ...updates} : p)
updatePost(posts, id, updates) ==
    [i \in DOMAIN posts |->
        IF posts[i].id = id
        THEN [f \in DOMAIN posts[i] |->
                 IF f \in DOMAIN updates THEN updates[f] ELSE posts[i][f]]
        ELSE posts[i]]

\* BlogService.deletePost(id): posts.filter(p => p.id !== id)
deletePostById(posts, id) == SelectSeq(posts, LAMBDA p : p.id # id)

\* this.getPosts().find(p => p.id === id)?.views || 0
ViewsOf(posts, id) ==
    IF \E i \in DOMAIN posts : posts[i].id = id
    THEN posts[CHOOSE i \in DOMAIN posts :
                   posts[i].id = id /\ \A j \in DOMAIN posts : posts[j].id = id => i <= j].views
    ELSE 0

\* BlogService.incrementViews(id)
incrementViews(posts, id) ==
    updatePost(posts, id, [f \in {"views"} |-> ViewsOf(posts, id) + 1])

\* the ids a caller passes: the ids of the stored posts, and one of no post
CallerIds == {blogStore[i].id : i \in DOMAIN blogStore} \cup {0}

callCreatePost(title, tick) ==
    /\ pc = "services_direct"
    /\ ops < MaxOps
    /\ clock' = clock + tick
    /\ blogStore' = createPostAt(blogStore, [title |-> title], clock')
    /\ lastCall' = Call("createPost", "none", [title |-> title], <<>>, blogStore'[1])
    /\ ops' = ops + 1
    /\ UNCHANGED theme
    /\ servicesUnchanged

callUpdatePost(id, title) ==
    /\ pc = "services_direct"
    /\ ops < MaxOps
    /\ blogStore' = updatePost(blogStore, id, [f \in {"title"} |-> title])
    /\ lastCall' = Call("updatePost", "none", id, <<>>, TRUE)
    /\ ops' = ops + 1
    /\ UNCHANGED <<theme, clock>>
    /\ servicesUnchanged

callDeletePost(id) ==
    /\ pc = "services_direct"
    /\ ops < MaxOps
    /\ blogStore' = deletePostById(blogStore, id)
    \* recorded with the number of posts the call removed
    /\ lastCall' = Call("deletePost", "none", id, <<>>, Len(blogStore) - Len(blogStore'))
    /\ ops' = ops + 1
    /\ UNCHANGED <<theme, clock>>
    /\ servicesUnchanged

callIncrementViews(id) ==
    /\ pc = "services_direct"
    /\ ops < MaxOps
    /\ blogStore' = incrementViews(blogStore, id)
    /\ lastCall' = Call("incrementViews", "none", id, <<>>, TRUE)
    /\ ops' = ops + 1
    /\ UNCHANGED <<theme, clock>>
    /\ servicesUnchanged

\* ---------------------------------------------------------- specifications

InitCommon ==
    /\ html = [m \in MountPoints |-> NoMarkup]
    /\ loadingText = "loading"
    /\ app = NoApp
    /\ bootstrapResult = "not_called"
    /\ storedPosts \in {<<>>, <<1>>}
    /\ cryptoData = <<>>
    /\ notifications = <<>>
    /\ warnings = <<>>
    /\ events = <<>>
    /\ hist = [c \in Components |-> <<>>]
    /\ count = [c \in Components |-> [n \in HookNames |-> 0]]
    /\ lastCall = Call("load", "none", NoArg, <<>>, TRUE)
    /\ ops = 0
    /\ clock = 2
    /\ stages = <<>>
    /\ registry = <<>>
    /\ instances = <<>>
    /\ regLog = <<>>
    /\ space = NewSpaceService
    /\ page = PageScript
    /\ blogStore = <<>>

\* the page after its scripts have run, before DOMContentLoaded
Init ==
    /\ InitCommon
    /\ elements \in SUBSET (MountPoints \cup {".loading-text"})
    /\ container \in Registrations \cup {NoContainer, WithNewService}
    /\ windowComponentRegistry \in BOOLEAN
    /\ pc = "not_started"
    /\ comp = [c \in Components |-> NoComponent]
    /\ theme \in {[currentTheme |-> "light", stored |-> s, darkMode |-> FALSE] :
                    s \in {"none", "light", "dark"}}
    \* the page with the added service is visited with nothing stored yet
    /\ container = WithNewService => (storedPosts = <<>> /\ theme.stored = "none")

Next ==
    \/ DOMContentLoaded
    \/ initializeServices
    \/ initializeTheme
    \/ initializeComponents
    \/ \E c \in Components : SettleOnInit(c)
    \/ \E scene \in SceneOutcomes : initialize3DScene(scene)
    \/ loadAsyncDataStart
    \/ \E outcome \in {"resolved", "rejected"} : loadAsyncDataSettle(outcome)
    \/ completeInitialization
    \/ \E tick \in {0, 1} : handleSavePost(tick)
    \/ \E n \in 1..(clock + 1) : blogDeletePost(n)
    \/ showPageCourts
    \/ \E query \in Queries : searchCourts(query)
    \/ callToggleTheme

Spec == Init /\ [][Next]_vars

\* one component instance, constructed with the full dependency bundle, its mount
\* point present or not
InitComponent ==
    /\ InitCommon
    /\ container = AllRegistered
    /\ windowComponentRegistry = TRUE
    /\ pc = "unit"
    /\ theme = [currentTheme |-> "light", stored |-> "none", darkMode |-> FALSE]
    /\ \E c \in Components :
          /\ comp = [d \in Components |->
                       IF d = c
                       THEN NewComponent(c, getComponentDependencies(container.services))
                       ELSE NoComponent]
          /\ elements \in {{}, {Selector(c)}}

NextComponent ==
    \/ \E c \in Components : callInitialize(c)
    \/ \E c \in Components : \E newState \in PartialUpdates(comp[c].state) :
          callSetState(c, newState)
    \/ \E c \in Components : SettleOnInit(c)
    \/ \E c \in Components : callRender(c)
    \/ \E c \in Components : callOnDestroy(c)
    \/ \E k \in DOMAIN Transcripts : callSelectCase(k)
    \/ \E k \in DOMAIN Transcripts : \E id \in Transcripts[k] : callViewTranscript(id)
    \/ callCloseTranscriptViewer

SpecComponent == InitComponent /\ [][NextComponent]_vars

\* a new ServiceContainer, driven by its callers
InitContainer ==
    /\ InitCommon
    /\ container = [present |-> TRUE, services |-> [n \in {} |-> NullService]]
    /\ windowComponentRegistry = TRUE
    /\ pc = "container"
    /\ theme = [currentTheme |-> "light", stored |-> "none", darkMode |-> FALSE]
    /\ comp = [c \in Components |-> NoComponent]
    /\ elements = {}

NextContainer ==
    \/ \E name \in RegNames : \E service \in RegServices : register(name, service)
    \/ \E name \in GetNames : get(name)

SpecContainer == InitContainer /\ [][NextContainer]_vars

\* a new ComponentRegistry, driven by its callers; the document has any of the
\* mount points
InitRegistry ==
    /\ InitCommon
    /\ container = AllRegistered
    /\ windowComponentRegistry = TRUE
    /\ pc = "registry"
    /\ storedPosts = <<1>>
    /\ theme = [currentTheme |-> "light", stored |-> "none", darkMode |-> FALSE]
    /\ comp = [c \in Components |-> NoComponent]
    /\ elements \in SUBSET MountPoints

NextRegistry ==
    \/ \E name \in Components : registryRegister(name)
    \/ initializeAll
    \/ \E c \in Components : SettleOnInit(c)

SpecRegistry == InitRegistry /\ [][NextRegistry]_vars

\* a new SpaceService and the page script's space background, driven by their
\* callers; the document has the container of the background or not
InitSpace ==
    /\ InitCommon
    /\ container = AllRegistered
    /\ windowComponentRegistry = TRUE
    /\ pc = "space"
    /\ storedPosts = <<>>
    /\ theme = [currentTheme |-> "light", stored |-> "none", darkMode |-> FALSE]
    /\ comp = [c \in Components |-> NoComponent]
    /\ elements \in {{}, {"#space-images-container"}}

NextSpace ==
    \/ \E responses \in Responses : callLoadSpaceImages(responses)
    \/ callNextImage
    \/ callPreviousImage
    \/ pageLoadSpaceImages
    \/ \E responses \in PageResponses : pageLoadSettle(responses)

SpecSpace == InitSpace /\ [][NextSpace]_vars

\* a BlogService driven by its callers, and the theme toggle with the page
\* script's listener and the bootstrapper's both attached, after both initTheme
InitServices ==
    /\ InitCommon
    /\ container = AllRegistered
    /\ windowComponentRegistry = TRUE
    /\ pc = "services_direct"
    /\ storedPosts = <<>>
    /\ theme \in {pageInitTheme(initTheme([currentTheme |-> "light", stored |-> s,
                                            darkMode |-> FALSE])) :
                      s \in {"none", "light", "dark"}}
    /\ comp = [c \in Components |-> NoComponent]
    /\ elements = {"#theme-toggle"}

NextServices ==
    \/ \E order \in ListenerOrders : clickThemeToggle(order)
    \/ \E title \in Titles : \E tick \in {0, 1} : callCreatePost(title, tick)
    \/ \E id \in CallerIds : \E title \in Titles : callUpdatePost(id, title)
    \/ \E id \in CallerIds : callDeletePost(id)
    \/ \E id \in CallerIds : callIncrementViews(id)

SpecServices == InitServices /\ [][NextServices]_vars

\* ------------------------------------------------------------------ claims
\* the step just taken was component c's setState(p), called directly
IsSetState(c, p) ==
    /\ lastCall'.op = "setState"
    /\ lastCall'.comp = c
    /\ lastCall'.arg = p

\* C1: setState(p) with every key of p already holding p's value (the same
\* primitive, or the same object) invokes neither onChanges nor render, and leaves
\* the state and the page as they were.
C1_SetStateNoOp ==
    [][\A c \in Components : \A p \in PartialUpdates(comp[c].state) :
          (IsSetState(c, p) /\ \A k \in DOMAIN p : comp[c].state[k] = p[k])
             => /\ lastCall'.hooks = <<>>
                /\ comp'[c].state = comp[c].state
                /\ html' = html
                /\ count' = count]_vars

\* a no-op setState happened: p names a key, holds an object, and nothing was invoked
C1_Witness ==
    /\ lastCall.op = "setState"
    /\ lastCall.hooks = <<>>
    /\ \E k \in DOMAIN lastCall.arg :
          /\ lastCall.arg[k].kind = "object"
          /\ comp[lastCall.comp].state[k] = lastCall.arg[k]

\* the keys of p whose value differs from the state's
ChangedKeys(st, p) == {k \in DOMAIN p : st[k] # p[k]}

\* C2: on an initialized component, setState(p) with a differing key invokes
\* onChanges once, with exactly the changed keys mapped to {old, new}, then render
\* once; afterwards the state holds p's value for every changed key and the mount
\* point holds what render draws.
C2_SetStateChange ==
    [][\A c \in Components : \A p \in PartialUpdates(comp[c].state) :
          (IsSetState(c, p) /\ comp[c].element /\ ChangedKeys(comp[c].state, p) # {})
             => /\ HookSeq(lastCall'.hooks) = <<"onChanges", "render">>
                /\ lastCall'.hooks[1].arg =
                      [k \in ChangedKeys(comp[c].state, p) |->
                          [old |-> comp[c].state[k], new |-> p[k]]]
                /\ \A k \in ChangedKeys(comp[c].state, p) : comp'[c].state[k] = p[k]
                /\ html'[Selector(c)].by = c]_vars

\* a setState on an initialized component changed one key of p and not the other,
\* the changed key replacing an earlier value
C2_Witness ==
    /\ lastCall.op = "setState"
    /\ comp[lastCall.comp].element
    /\ Len(lastCall.hooks) = 2
    /\ DOMAIN lastCall.hooks[1].arg # DOMAIN lastCall.arg
    /\ \E k \in DOMAIN lastCall.hooks[1].arg :
          lastCall.hooks[1].arg[k].old # Undefined

\* C3: setState compares by value: a new array whose contents equal the stored
\* value of the key counts as unchanged, so no hook runs (setState({posts:
\* blogService.getPosts()}) with the stored posts unchanged).
C3_ComparesByValue ==
    [][\A c \in Components :
          (/\ lastCall'.op \in {"setState", "handleSavePost", "deletePost"}
           /\ lastCall'.comp = c
           /\ \A k \in DOMAIN lastCall'.arg :
                 SameContents(comp[c].state[k], lastCall'.arg[k]))
             => lastCall'.hooks = <<>>]_vars

\* C4: the merge is all-or-nothing: onChanges and render see p's value under every
\* key of p and the previous value under every other key, and so does the caller
\* afterwards.
C4_AtomicMerge ==
    [][\A c \in Components : \A p \in PartialUpdates(comp[c].state) :
          IsSetState(c, p)
             => /\ \A i \in DOMAIN lastCall'.hooks :
                      /\ \A k \in DOMAIN p : lastCall'.hooks[i].state[k] = p[k]
                      /\ \A k \in Keys \ DOMAIN p :
                            lastCall'.hooks[i].state[k] = comp[c].state[k]
                /\ \A k \in Keys \ DOMAIN p : comp'[c].state[k] = comp[c].state[k]
                /\ \A k \in DOMAIN p : comp'[c].state[k] = p[k]]_vars

\* one setState changed two keys at once
C4_Witness ==
    /\ lastCall.op = "setState"
    /\ Len(lastCall.hooks) = 2
    /\ DOMAIN lastCall.hooks[1].arg = Keys

\* C5: initialize() on a component whose mount point does not resolve returns
\* false, invokes no hook, and leaves the component's state, its data and the page
\* as they were.
C5_InitializeWithoutMount ==
    [][\A c \in Components :
          (lastCall'.op = "initialize" /\ lastCall'.comp = c
              /\ Selector(c) \notin elements)
             => /\ lastCall'.result = FALSE
                /\ lastCall'.hooks = <<>>
                /\ comp'[c].state = comp[c].state
                /\ comp'[c].data = comp[c].data
                /\ ~comp'[c].onInitPending
                /\ html' = html
                /\ hist' = hist
                /\ count' = count]_vars

\* initialize() failed on a component that already holds state
C5_Witness ==
    /\ lastCall.op = "initialize"
    /\ lastCall.result = FALSE
    /\ comp[lastCall.comp].state # EmptyState

\* position of the first "render" in a hook sequence (0: none)
FirstRender(h) ==
    IF \E i \in DOMAIN h : h[i] = "render"
    THEN CHOOSE i \in DOMAIN h : h[i] = "render" /\ \A j \in 1..(i - 1) : h[j] # "render"
    ELSE 0

\* onInit once and before the first render; onAfterViewInit once, right after the
\* first render
StrictLifecycle(c) ==
    /\ count[c]["onInit"] = 1
    /\ hist[c][1] = "onInit"
    /\ FirstRender(hist[c]) # 0 =>
          /\ count[c]["onAfterViewInit"] = 1
          /\ Len(hist[c]) > FirstRender(hist[c])
          /\ hist[c][FirstRender(hist[c]) + 1] = "onAfterViewInit"

C7_RenderAfterOnInitSettles ==
    lastCall.op \in {"initializeComponents", "initialize"} =>
        \A i \in DOMAIN lastCall.hooks :
            lastCall.hooks[i].hook = "render" =>
                /\ ~lastCall.hooks[i].pending
                /\ lastCall.hooks[i].comp = "crypto" =>
                      html[Selector("crypto")].shows = CryptoCoins

\* a required service is not registered in the container
RequiredMissing ==
    /\ container.present
    /\ \E i \in DOMAIN RequiredServices :
           RequiredServices[i] \notin DOMAIN container.services

\* C8: with a required service unregistered, bootstrap goes from stage 1 to FAILED:
\* the readiness flag stays false, no component is created or initialized, no
\* completion event is published; after the abort getAppService returns every
\* registered service.
C8_MissingServiceIsFatal ==
    RequiredMissing =>
        /\ pc \in {"not_started", "services", "failed"}
        /\ ~app.isInitialized
        /\ app.components = <<>>
        /\ \A c \in Components : ~comp[c].created /\ hist[c] = <<>>
        /\ html = [m \in MountPoints |-> NoMarkup]
        /\ events = <<>>
        /\ pc = "failed" =>
              \A n \in DOMAIN container.services :
                  getAppService(n) = [raised |-> FALSE, value |-> NewService(n)]

\* bootstrap has aborted on a missing service while others are registered
C8_Witness ==
    /\ RequiredMissing
    /\ pc = "failed"
    /\ DOMAIN container.services # {}
    /\ bootstrapResult = "resolved"

\* C9: whatever is thrown in stage 1, 2 or 3, bootstrap() does not raise, ends
\* FAILED, calls the notification service's error() and replaces the loading text.
C9_EveryFailureHandled ==
    (pc = "failed" /\ ~app.componentRegistry) =>
        /\ bootstrapResult = "resolved"
        /\ ~app.isInitialized
        /\ Len(notifications) = 1
        /\ ".loading-text" \in elements => loadingText = "failed"

\* C10: a failure of an external stage never fails bootstrap: once the components
\* stage has completed, bootstrap goes on to READY.
C10_ExternalFailureIsWarning ==
    app.componentRegistry => pc # "failed"

\* the blog, crypto and admin components whose mount point resolves, in the order
\* bootstrap initializes them
Attached == SelectSeq(<<"blog", "crypto", "admin">>, LAMBDA c : Selector(c) \in elements)

\* the names in a list of components
Listed(list) == {list[i] : i \in DOMAIN list}

C12_MountPointsNeverFail ==
    (container = AllRegistered /\ windowComponentRegistry) => pc # "failed"

\* the step just taken was initializeAll
C13_Returned == lastCall.op = "initializeAll"

\* C13: initializeAll returns the registered components whose mount point
\* resolves, in registration order; every registered component was created, and
\* those with a mount point were initialized and have their markup attached.
C13_InitializeAllIsolation ==
    C13_Returned =>
        /\ instances = SelectSeq(registry, LAMBDA c : Selector(c) \in elements)
        /\ \A c \in Listed(registry) :
              /\ comp[c].created
              /\ comp[c].element = (Selector(c) \in elements)
              /\ Selector(c) \in elements =>
                    /\ html[Selector(c)].by = c
                    /\ SubSeq(hist[c], 1, 3) = <<"onInit", "render", "onAfterViewInit">>
              /\ Selector(c) \notin elements => hist[c] = <<>>

\* three components registered, the second one's mount point absent, the other two
\* returned
C13_Witness ==
    /\ C13_Returned
    /\ Len(registry) = 3
    /\ Selector(registry[2]) \notin elements
    /\ instances = <<registry[1], registry[3]>>
    /\ registry[1] = "court"

C15_DeferredRenderAttaches ==
    (lastCall.op \in {"showPage", "searchCourts"} /\ Selector("court") \in elements) =>
        html[Selector("court")] =
            [by |-> "court", view |-> "list", shows |-> comp["court"].filtered,
             viewer |-> NoViewer]

\* the stages of bootstrap(), in the order of its awaits
StageOrder == <<"services", "theme", "components", "scene", "async", "complete">>

\* the record of a run in which every stage started and ended
ExpectedStages ==
    [i \in 1..(2 * Len(StageOrder)) |->
        [stage |-> StageOrder[(i + 1) \div 2],
         event |-> IF i % 2 = 1 THEN "start" ELSE "end"]]

\* C16: the stages start in the fixed order, each one after the previous one has
\* ended (the data loads of stage 5 included), none twice; a stage that throws
\* is the last one.
C16_StagesInOrder ==
    /\ Len(stages) <= Len(ExpectedStages)
    /\ \A i \in DOMAIN stages :
          /\ stages[i].stage = ExpectedStages[i].stage
          /\ \/ stages[i].event = ExpectedStages[i].event
             \/ /\ i = Len(stages)
                /\ stages[i].event = "throw"
                /\ ExpectedStages[i].event = "end"

\* a run through all six stages, with a handler call while stage 5 was waiting
C16_Witness ==
    /\ pc = "ready"
    /\ stages = ExpectedStages
    /\ ops > 0

\* C17: every listener of 'app-ready' reads isInitialized as true.
C17_ReadyBeforeEvent ==
    \A i \in DOMAIN events : events[i].flagSeen

\* C18: getAppService(name) does not raise, whatever the name, before bootstrap
\* starts, while it waits, after READY and after FAILED.
C18_GetAppServiceNeverRaises ==
    pc \in {"not_started", "async_wait", "ready", "failed"} =>
        \A n \in ServiceNames \cup {"unknown"} : ~getAppService(n).raised

\* the service of the last register(n, .) call
LastRegistered(n) ==
    LET calls == {i \in DOMAIN regLog : regLog[i].name = n} IN
    IF calls = {} THEN NullService
    ELSE regLog[CHOOSE i \in calls : \A j \in calls : j <= i].service

\* C19: get(n) returns the service of the last register(n, .) call, whatever was
\* registered under n before and whatever is registered under other names.
C19_OverwriteWins ==
    /\ \A n \in RegNames : ContainerGet(container.services, n) = LastRegistered(n)
    /\ (lastCall.op = "get" /\ lastCall.comp \in RegNames) =>
          lastCall.result = LastRegistered(lastCall.comp)

\* register(n, s1), a registration under another name, register(n, s2), then
\* get(n) has returned s2
C19_Witness ==
    /\ Len(regLog) = 3
    /\ regLog[1].name = regLog[3].name
    /\ regLog[1].service # regLog[3].service
    /\ regLog[2].name # regLog[1].name
    /\ lastCall.op = "get"
    /\ lastCall.comp = regLog[1].name
    /\ lastCall.result = regLog[3].service

\* C20: get(name) for a name never registered returns null and leaves the
\* container as it was.
C20_GetUnknownIsNull ==
    [][\A n \in GetNames :
          (lastCall'.op = "get" /\ lastCall'.comp = n /\ LastRegistered(n) = NullService)
              => (lastCall'.result = NullService /\ container' = container)]_vars

\* get of a never registered name has returned null from a container that holds
\* services
C20_Witness ==
    /\ lastCall.op = "get"
    /\ lastCall.comp = "space"
    /\ lastCall.result = NullService
    /\ DOMAIN container.services = RegNames

\* C21: every component bootstrap constructs holds the same bundle object, and the
\* bundle's entry for every service name is the instance the container returns.
C21_SharedBundle ==
    app.componentRegistry =>
        \A c \in Components :
            /\ comp[c].created
            /\ comp[c].dependencies.ref = comp["blog"].dependencies.ref
            /\ \A n \in ServiceNames :
                  /\ getService(comp[c], n) = ContainerGet(container.services, n)
                  /\ getService(comp[c], n) # NullService

\* bootstrap completed with four components constructed, some initialized and
\* some not
C21_Witness ==
    /\ pc = "ready"
    /\ \A c \in Components : comp[c].created
    /\ comp["blog"].element
    /\ ~comp["admin"].element

\* C22: every service registered in the container, under whatever name, is what
\* this.getService(name) returns inside every component bootstrap has constructed.
C22_RegisteredServiceReachesComponents ==
    app.componentRegistry =>
        \A c \in Components : \A n \in DOMAIN container.services :
            getService(comp[c], n) = container.services[n]

\* C23: onDestroy is invoked at most once on an instance, and once it has been
\* invoked no later call on the instance runs a hook or changes the page.
C23_DestroyedIsTerminal ==
    [][\A c \in Components :
          count[c]["onDestroy"] > 0 =>
              (lastCall'.comp = c => (lastCall'.hooks = <<>> /\ html' = html))]_vars

\* C24: a render() call on a component whose markup is attached, its state being
\* what it was at the render that attached it, attaches the same markup again,
\* and changes neither the instance nor another mount point.
C24_RenderIsFunctionOfState ==
    [][\A c \in Components :
          (lastCall'.op = "render" /\ lastCall'.comp = c /\ html[Selector(c)].by = c)
              => (html' = html /\ comp' = comp)]_vars

\* C25: after handleSavePost the post list under the blog component's mount point
\* is blogService.getPosts().
C25_SavedPostIsShown ==
    lastCall.op = "handleSavePost" =>
        /\ html[Selector("blog")].by = "blog"
        /\ html[Selector("blog")].shows = storedPosts

\* stage 2 has run ThemeService.initTheme
ThemeInitialized ==
    \E i \in DOMAIN stages : stages[i] = [stage |-> "theme", event |-> "end"]

\* C26 as stated: after initTheme and any number of toggleTheme calls the stored
\* preference is getTheme() and the body has 'dark-mode' exactly when it is dark.
C26_ThemeConsistent ==
    ThemeInitialized =>
        /\ theme.stored = theme.currentTheme
        /\ theme.darkMode = (theme.currentTheme = "dark")

\* C26, amended: after initTheme and any number of toggleTheme calls, each toggle
\* switches between light and dark and returns the new theme, the body has
\* 'dark-mode' exactly when getTheme() is dark, and the stored preference is
\* getTheme() once a preference was ever stored; until the first toggle of a
\* visitor without a stored preference nothing is stored and getTheme() is light.
C26_ThemeConsistentOnceStored ==
    [][ThemeInitialized' =>
          /\ theme'.currentTheme \in {"light", "dark"}
          /\ theme'.darkMode = (theme'.currentTheme = "dark")
          /\ IF theme'.stored = "none"
             THEN theme'.currentTheme = "light" /\ lastCall'.op # "toggleTheme"
             ELSE theme'.stored = theme'.currentTheme
          /\ lastCall'.op = "toggleTheme" =>
                /\ theme'.currentTheme # theme.currentTheme
                /\ lastCall'.result = theme'.currentTheme]_vars

\* a visitor with a stored dark preference has toggled twice after initTheme
C26_Witness ==
    /\ ThemeInitialized
    /\ lastCall.op = "toggleTheme"
    /\ ops = 2
    /\ theme.currentTheme = "dark"
    /\ theme.darkMode

\* C27: after viewTranscript(id, title) in the case-details view the transcript
\* viewer is visible and shows the content of transcript id; after
\* closeTranscriptViewer it is not visible.
C27_ViewerOpensAndCloses ==
    /\ lastCall.op = "viewTranscript" =>
          /\ Visible(html[Selector("court")].viewer)
          /\ html[Selector("court")].viewer.content = getTranscriptContent(lastCall.result)
    /\ lastCall.op = "closeTranscriptViewer" => ~Visible(html[Selector("court")].viewer)

\* C28: the documented search, 'ftx' with judge 'Judge Kaplan', leaves the court
\* component with a non-empty list of cases, each about FTX and before Judge
\* Kaplan.
C28_DocumentedSearchFindsCases ==
    (lastCall.op = "searchCourts" /\ lastCall.arg.query = QueryFtx
        /\ lastCall.arg.judge = QueryJudgeKaplan) =>
        /\ comp["court"].filtered # <<>>
        /\ \A i \in DOMAIN comp["court"].filtered :
              comp["court"].filtered[i] \in {1, 2}

\* C29: an initialize, setState or render call that follows a failed initialize()
\* on the same instance runs no hook of it and attaches no markup.
C29_FailedIsTerminal ==
    [][(lastCall.op = "initialize" /\ lastCall.result = FALSE
            /\ lastCall'.comp = lastCall.comp
            /\ lastCall'.op \in {"initialize", "setState", "render"})
          => (lastCall'.hooks = <<>> /\ html' = html)]_vars

\* C30: when bootstrap has completed, every component whose mount point is in the
\* document has had onInit, render and onAfterViewInit, and its markup is
\* attached.
C30_AttachableInitializedBeforeCompletion ==
    pc = "ready" =>
        \A c \in Components : Selector(c) \in elements =>
            /\ comp[c].element
            /\ html[Selector(c)].by = c
            /\ SubSeq(hist[c], 1, 3) = <<"onInit", "render", "onAfterViewInit">>

\* --------------------------------------------------------------------- C31
\* position of a component in an order
PositionIn(order, c) == CHOOSE i \in DOMAIN order : order[i] = c

\* the names of a sequence (of components, or of the components of hook
\* invocations) never go back in `order`
FollowsOrder(names, order) ==
    \A i, j \in DOMAIN names :
        i < j => PositionIn(order, names[i]) <= PositionIn(order, names[j])

Stage3Hooks == [i \in DOMAIN lastCall.hooks |-> lastCall.hooks[i].comp]

C32_RenderOnceOnInitSettles ==
    [][\A c \in Components :
          (lastCall'.op = "settleOnInit" /\ lastCall'.comp = c
              /\ comp[c].onInitPending /\ comp[c].element)
          => /\ \E i \in DOMAIN lastCall'.hooks : lastCall'.hooks[i].hook = "render"
             /\ html'[Selector(c)].shows = comp'[c].data
             /\ c = "crypto" => html'[Selector(c)].shows = CryptoCoins]_vars

\* --------------------------------------------------------------------- C33
StageEnded(stage) ==
    \E i \in DOMAIN stages : stages[i] = [stage |-> stage, event |-> "end"]

\* C33: once stage 1 has completed no step (bootstrap stage, component operation,
\* page handler) adds, replaces or removes an entry of the service container, and
\* once stage 3 has completed the dependency bundle every component holds keeps
\* its identity and its entries.
C33_RegistryAndBundleReadOnly ==
    [][/\ StageEnded("services") => container' = container
       /\ StageEnded("components") =>
              \A c \in Components : comp'[c].dependencies = comp[c].dependencies]_vars

\* after stage 3 a post was saved through the blog component, whose setState
\* changed its state and re-rendered it
C33_Witness ==
    /\ StageEnded("services") /\ StageEnded("components")
    /\ lastCall.op = "handleSavePost"
    /\ lastCall.hooks # <<>>
    /\ comp["blog"].dependencies = getComponentDependencies(container.services)

\* --------------------------------------------------------------------- C34
\* the days whose request returned an entry with url and title
ValidDays(responses) == {d \in Days : responses[d] \in {"ok", "okHd"}}

\* C34: whatever subset of the ten requests fails or returns an entry without url
\* or title, SpaceService.loadSpaceImages does not reject, and resolves to (and
\* keeps as its images) exactly the pictures of the remaining days, in request
\* order, cut to the first eight.
C34_FailedRequestsExcluded ==
    lastCall.op = "loadSpaceImages" =>
        LET valid == ValidDays(lastCall.arg)
            images == lastCall.result.images
        IN /\ ~lastCall.result.rejected
           /\ Len(images) = Min(8, Cardinality(valid))
           /\ \A i \in DOMAIN images :
                 /\ images[i].title \in valid
                 /\ Cardinality({d \in valid : d <= images[i].title}) = i
           /\ space.images = images

\* a batch of which one request was rejected and nine returned a picture: the
\* result is cut to eight
C34_Witness ==
    /\ lastCall.op = "loadSpaceImages"
    /\ \E d \in Days : lastCall.arg[d] = "rejected"
    /\ Cardinality(ValidDays(lastCall.arg)) = 9
    /\ Len(lastCall.result.images) = 8

\* --------------------------------------------------------------------- C35
\* C35: the page's loadSpaceImages does not retry: every call of it issues one
\* batch of requests, whatever fails while loading or displaying the images.
C35_OneBatchPerCall == page.batches <= page.calls

\* --------------------------------------------------------------------- C36
\* C36: whenever the space service's image list is non-empty, currentIndex is a
\* valid index into it and getCurrentImage() returns an image.
C36_CurrentIndexValid ==
    space.images # <<>> =>
        /\ space.currentIndex # NaN
        /\ 0 <= space.currentIndex /\ space.currentIndex < Len(space.images)
        /\ getCurrentImage(space) # NullImage

\* --------------------------------------------------------------------- C37
\* C37: after a click on the theme toggle with both listeners attached, in either
\* order, the dark-mode marker, the stored preference and getTheme() agree.
C37_ThemeAgreesAfterClick ==
    lastCall.op = "clickThemeToggle" =>
        /\ theme.darkMode = (theme.currentTheme = "dark")
        /\ theme.stored = theme.currentTheme

\* --------------------------------------------------------------------- C39
\* C39: no two posts in the store share an id, whatever createPost, updatePost,
\* deletePost and incrementViews calls were made and however close in time; a
\* deletePost removes at most one post.
C39_IdsUnique ==
    /\ \A i, j \in DOMAIN blogStore : blogStore[i].id = blogStore[j].id => i = j
    /\ (pc = "services_direct" /\ lastCall.op = "deletePost") => lastCall.result <= 1

\* --------------------------------------------------------------------- C38
\* C38: a confirmed click on the delete button of a post shown by the blog
\* component removes that post, and only it, from the stored posts, and the list is
\* drawn again without it.
C38_DeleteRemovesThatPost ==
    [][(lastCall'.op = "deletePost" /\ lastCall'.comp = "blog") =>
          \E i \in DOMAIN html[Selector("blog")].shows :
              LET n == html[Selector("blog")].shows[i] IN
              /\ storedPosts' = SelectSeq(storedPosts, LAMBDA p : p # n)
              /\ Len(storedPosts') < Len(storedPosts)
              /\ html'[Selector("blog")].shows = storedPosts']_vars
====
